---------------------------- MODULE Spec2Model ----------------------------
(***************************************************************************)
(* Model of the Zutax / FIRS e-invoice SDK: the IRN codec                  *)
(* (zutax/crypto/irn.py, firs_einvoice/crypto/irn.py and the clients'      *)
(* generate_irn), the invoice and line-item aggregates, the line-item      *)
(* builder, the tax engine (firs_einvoice/managers/tax_manager.py), the    *)
(* HSN registry (zutax/managers/hsn_manager.py), the FIRS signer           *)
(* (zutax/crypto/firs_signing.py), the resource cache                      *)
(* (zutax/cache/resource_cache.py) and the invoice processor               *)
(* (firs_einvoice/processors/invoice_processor.py).                        *)
(*                                                                         *)
(* Strings are sequences of one-character strings.  A Decimal is a         *)
(* numerator and a count of fractional digits.                             *)
(***************************************************************************)
EXTENDS Integers, Sequences, FiniteSets, TLC

VARIABLES
    irnCall,     \* the last IRN operation that ran: its inputs and its result
    irnParse,    \* the result of extract_components on irnCall.irn, if it ran
    hsnDb,       \* HSNManager._hsn_database
    taxCall,     \* the last TaxManager call: its inputs, its result, its validation
    inv,         \* the invoice at hand
    sealedItems, \* the line items of inv when its IRN was produced
    stackCall,   \* the last stacked-tax or reverse-tax call of TaxManager
    item,        \* the line item at hand
    builder,     \* the LineItemBuilder at hand: _item_data and _charges
    hsnRead,     \* the last read operation on the HSN registry
    mutator,     \* the thread that mutates the HSN registry: where it stands
    reader,      \* the thread that looks a code up: where it stands
    sign,        \* the FIRSSigner at hand and the signing operation it is running
    rc,          \* the ResourceCache class, its instance and the clock
    tasks,       \* the threads and tasks using the cache
    proc         \* the call of InvoiceProcessor.process_invoice

vars == <<irnCall, irnParse, hsnDb, taxCall, inv, sealedItems, stackCall, item, builder,
          hsnRead, mutator, reader, sign, rc, tasks, proc>>

\* Python None where a string is expected (no string holds this element)
None == <<"None">>
\* Python None where a datetime is expected
NoDate == [y |-> 0, m |-> 0, d |-> 0]

(***************************************************************************)
(* Characters and strings                                                  *)
(***************************************************************************)
UpperChars == {"A", "B", "I", "N", "V", "Z", "U", "T", "X"}
LowerChars == {"a", "b"}
DigitChars == {"0", "1", "2", "3", "4", "5", "6", "7", "8", "9"}
Hyphen == "-"

\* str.upper() on one character
UpperChar(c) == CASE c = "a" -> "A" [] c = "b" -> "B" [] OTHER -> c

\* str.upper()
Upper(s) == [i \in 1..Len(s) |-> UpperChar(s[i])]

\* str.isalnum(): non-empty and every character a letter or a digit
IsAlnum(s) == Len(s) > 0 /\ \A i \in 1..Len(s) : s[i] \in UpperChars \cup LowerChars \cup DigitChars

\* str.isdigit()
IsDigit(s) == Len(s) > 0 /\ \A i \in 1..Len(s) : s[i] \in DigitChars

\* s[:k]
Prefix(s, k) == SubSeq(s, 1, IF Len(s) < k THEN Len(s) ELSE k)

\* index of the first hyphen of s, 0 when there is none
FirstHyphen(s) == IF \E i \in 1..Len(s) : s[i] = Hyphen
                  THEN CHOOSE i \in 1..Len(s) : s[i] = Hyphen /\ \A j \in 1..(i-1) : s[j] # Hyphen
                  ELSE 0

\* str.split('-'): the empty string splits into one empty part
RECURSIVE Split(_)
Split(s) == LET i == FirstHyphen(s)
            IN IF i = 0 THEN <<s>>
               ELSE <<SubSeq(s, 1, i - 1)>> \o Split(SubSeq(s, i + 1, Len(s)))

\* '-'.join(parts)
RECURSIVE Join(_)
Join(parts) == IF Len(parts) = 0 THEN <<>>
               ELSE IF Len(parts) = 1 THEN parts[1]
               ELSE parts[1] \o <<Hyphen>> \o Join(Tail(parts))

DigitOf(n) == CASE n = 0 -> "0" [] n = 1 -> "1" [] n = 2 -> "2" [] n = 3 -> "3"
                [] n = 4 -> "4" [] n = 5 -> "5" [] n = 6 -> "6" [] n = 7 -> "7"
                [] n = 8 -> "8" [] n = 9 -> "9"

ValOf(c) == CASE c = "0" -> 0 [] c = "1" -> 1 [] c = "2" -> 2 [] c = "3" -> 3
              [] c = "4" -> 4 [] c = "5" -> 5 [] c = "6" -> 6 [] c = "7" -> 7
              [] c = "8" -> 8 [] c = "9" -> 9

\* the decimal value of a string of digits
RECURSIVE ToInt(_)
ToInt(s) == IF Len(s) = 0 THEN 0
            ELSE 10 * ToInt(SubSeq(s, 1, Len(s) - 1)) + ValOf(s[Len(s)])

\* n written with exactly w digits, zero-padded on the left (n < 10^w)
RECURSIVE Pad(_, _)
Pad(n, w) == IF w = 0 THEN <<>> ELSE Pad(n \div 10, w - 1) \o <<DigitOf(n % 10)>>

(***************************************************************************)
(* Calendar dates                                                          *)
(***************************************************************************)
IsLeap(y) == (y % 4 = 0 /\ y % 100 # 0) \/ y % 400 = 0

DaysInMonth(y, m) == CASE m \in {4, 6, 9, 11} -> 30
                       [] m = 2 -> (IF IsLeap(y) THEN 29 ELSE 28)
                       [] OTHER -> 31

\* datetime(y, m, d) exists: MINYEAR = 1
ValidDate(y, m, d) == /\ y >= 1 /\ y <= 9999
                      /\ m >= 1 /\ m <= 12
                      /\ d >= 1 /\ d <= DaysInMonth(y, m)

(***************************************************************************)
(* IRN codec: zutax/crypto/irn.py                                          *)
(***************************************************************************)
\* A date is a record [y, m, d]; a missing date or string is None.
Date(y, m, d) == [y |-> y, m |-> m, d |-> d]


\* not x, for an Optional[str]
Falsy(x) == x = None \/ x = <<>>

ServiceIdLen == 8
DateStampLen == 8

\* datetime.strftime("%Y%m%d") for a 4-digit year
strftime(dt) == Pad(dt.y, 4) \o Pad(dt.m, 2) \o Pad(dt.d, 2)

\* datetime.strptime(s, "%Y%m%d") on a string of 8 digits: %Y takes four
\* digits, %m and %d two each (a one-digit month or day would leave
\* unconverted data), and the date must exist.
strptime(s) == LET y == ToInt(SubSeq(s, 1, 4))
                   m == ToInt(SubSeq(s, 5, 6))
                   d == ToInt(SubSeq(s, 7, 8))
               IN IF ValidDate(y, m, d) THEN [ok |-> TRUE, val |-> Date(y, m, d)]
                  ELSE [ok |-> FALSE, val |-> NoDate]

\* IRNGenerator._generate_date_stamp
generate_date_stamp(issue_date, now) ==
    LET dt == IF issue_date # NoDate THEN issue_date ELSE now
    IN strftime(dt)

\* a three-way split: the first token alone taken as the invoice number
InvoicePart_first_token(parts) == parts[1]

\* parts[:-2], parts[-2], parts[-1]
InvoicePart(parts) == Join(SubSeq(parts, 1, Len(parts) - 2))
ServicePart(parts) == parts[Len(parts) - 1]
DatePart(parts) == parts[Len(parts)]

\* IRNGenerator.validate_irn
validate_irn(irn) ==
    IF irn = None \/ irn = <<>> THEN FALSE
    ELSE LET parts == Split(irn)
         IN IF Len(parts) < 3 THEN FALSE
            ELSE LET date_stamp == DatePart(parts)
                     service_id == ServicePart(parts)
                     invoice_number == InvoicePart(parts)
                 IN IF invoice_number = <<>> THEN FALSE
                    ELSE IF Len(service_id) # ServiceIdLen \/ ~IsAlnum(service_id) THEN FALSE
                    ELSE IF Len(date_stamp) # DateStampLen \/ ~IsDigit(date_stamp) THEN FALSE
                    ELSE strptime(date_stamp).ok

\* The dict extract_components returns, or the ValueError it raises (a
\* raise hands back no dict at all)
Components(n, s, ds, dt) == [ok |-> TRUE, invoice_number |-> n, service_id |-> s,
                             date_stamp |-> ds, issue_date |-> dt]
ComponentsError == [ok |-> FALSE, invoice_number |-> None, service_id |-> None,
                    date_stamp |-> None, issue_date |-> NoDate]

\* extract_components checking only the number of tokens
extract_components_unchecked(irn) ==
    IF irn = None \/ Len(Split(irn)) < 3 THEN ComponentsError
    ELSE LET parts == Split(irn)
         IN Components(InvoicePart(parts), ServicePart(parts), DatePart(parts), NoDate)

\* IRNGenerator.extract_components
extract_components(irn) ==
    IF ~validate_irn(irn) THEN ComponentsError
    ELSE LET parts == Split(irn)
             date_stamp == DatePart(parts)
         IN Components(InvoicePart(parts), ServicePart(parts), date_stamp,
                       strptime(date_stamp).val)

\* What a builder hands back: the IRN (or the exception), with the service
\* ID and the date stamp it interpolated.
Built(irn, sid, ds) == [ok |-> TRUE, irn |-> irn, sid |-> sid, ds |-> ds, err |-> "none"]
BuildError(e) == [ok |-> FALSE, irn |-> None, sid |-> None, ds |-> None, err |-> e]

\* f"{invoice_number}-{service_id}-{date_stamp}"
Fmt3(a, b, c) == a \o <<Hyphen>> \o b \o <<Hyphen>> \o c

\* create_custom_irn without the upper-casing of the service ID
create_custom_irn_no_upper(invoice_number, service_id, issue_date, gen, now) ==
    LET sid == Prefix(IF Falsy(service_id) THEN gen ELSE service_id, ServiceIdLen)
        ds == generate_date_stamp(issue_date, now)
        irn == Fmt3(invoice_number, sid, ds)
    IN IF ~validate_irn(irn) THEN BuildError("ValueError") ELSE Built(irn, sid, ds)

\* IRNGenerator.create_custom_irn; gen is what _generate_service_id draws
create_custom_irn(invoice_number, service_id, issue_date, gen, now) ==
    LET sid == Upper(Prefix(IF Falsy(service_id) THEN gen ELSE service_id, ServiceIdLen))
        ds == generate_date_stamp(issue_date, now)
        irn == Fmt3(invoice_number, sid, ds)
    IN IF ~validate_irn(irn) THEN BuildError("ValueError") ELSE Built(irn, sid, ds)

\* IRNGenerator.generate_irn; config_sid is config.service_id, env_sid the
\* FIRS_SERVICE_ID environment variable
generate_irn(invoice_number, issue_date, config_sid, env_sid, now) ==
    LET service_id == IF ~Falsy(config_sid) THEN config_sid ELSE env_sid
    IN IF Falsy(service_id) THEN BuildError("ValueError")
       ELSE LET date_stamp == generate_date_stamp(issue_date, now)
            IN Built(Fmt3(invoice_number, service_id, date_stamp), service_id, date_stamp)

\* ZutaxClient.generate_irn
ZutaxClient_generate_irn(invoice_number, issue_date, config_sid, env_sid, now) ==
    generate_irn(invoice_number, issue_date, config_sid, env_sid, now)

\* an Invoice of zutax/models/invoice.py as generate_irn reads it: the model
\* has the fields invoice_number and invoice_date (the issue date and time)
\* and, with extra = "forbid", no attribute issue_date
Invoice_attributes(invoice_number, invoice_date) ==
    [invoice_number |-> invoice_number, invoice_date |-> invoice_date]

\* getattr(invoice, "issue_date", None)
getattr_issue_date(invoice) ==
    IF "issue_date" \in DOMAIN invoice THEN invoice.issue_date ELSE NoDate

\* ZutaxClient.generate_irn(invoice) on an Invoice
ZutaxClient_generate_irn_of(invoice, config_sid, env_sid, now) ==
    generate_irn(invoice.invoice_number, getattr_issue_date(invoice), config_sid, env_sid, now)

(***************************************************************************)
(* IRN codec: firs_einvoice/crypto/irn.py and firs_einvoice/__init__.py    *)
(***************************************************************************)
INV001 == <<"I", "N", "V", "0", "0", "1">>
ZUTAX000 == <<"Z", "U", "T", "A", "X", "0", "0", "0">>

\* firs_einvoice IRNGenerator.validate_irn
firs_validate_irn(irn) ==
    IF irn = None \/ irn = <<>> THEN FALSE
    ELSE LET parts == Split(irn)
         IN IF Len(parts) < 3 THEN FALSE
            ELSE LET date_stamp == parts[Len(parts)]
                     service_id == parts[Len(parts) - 1]
                     invoice_number == Join(SubSeq(parts, 1, Len(parts) - 2))
                 IN /\ invoice_number # <<>>
                    /\ Len(service_id) = ServiceIdLen /\ IsAlnum(service_id)
                    /\ Len(date_stamp) = DateStampLen /\ IsDigit(date_stamp)
                    /\ strptime(date_stamp).ok

\* firs_einvoice IRNGenerator.extract_components
firs_extract_components(irn) ==
    IF ~firs_validate_irn(irn) THEN ComponentsError
    ELSE LET parts == Split(irn)
             date_stamp == parts[Len(parts)]
         IN Components(Join(SubSeq(parts, 1, Len(parts) - 2)), parts[Len(parts) - 1],
                       date_stamp, strptime(date_stamp).val)

\* firs_einvoice IRNGenerator.generate_irn
firs_generate_irn(invoice_number, issue_date, env_sid, gen, now) ==
    LET number == IF Falsy(invoice_number) THEN INV001 ELSE invoice_number
        service_id == Upper(Prefix(IF Falsy(env_sid) THEN gen ELSE env_sid, ServiceIdLen))
        date_stamp == generate_date_stamp(issue_date, now)
    IN Built(Fmt3(number, service_id, date_stamp), service_id, date_stamp)

\* firs_einvoice IRNGenerator.create_custom_irn
firs_create_custom_irn(invoice_number, service_id, issue_date, gen, now) ==
    LET sid == IF service_id = None THEN gen ELSE service_id
        date_stamp == generate_date_stamp(issue_date, now)
        irn == Fmt3(invoice_number, sid, date_stamp)
    IN IF ~firs_validate_irn(irn) THEN BuildError("ValueError") ELSE Built(irn, sid, date_stamp)

\* ''.join(ch for ch in s if ch.isalnum())
RECURSIVE KeepAlnum(_)
KeepAlnum(s) == IF Len(s) = 0 THEN <<>>
                ELSE (IF IsAlnum(<<Head(s)>>) THEN <<Head(s)>> ELSE <<>>) \o KeepAlnum(Tail(s))

\* str.replace("-", "")
RECURSIVE DropHyphens(_)
DropHyphens(s) == IF Len(s) = 0 THEN <<>>
                  ELSE (IF Head(s) = Hyphen THEN <<>> ELSE <<Head(s)>>) \o DropHyphens(Tail(s))

\* str.ljust(w, '0')
RECURSIVE Ljust(_, _)
Ljust(s, w) == IF Len(s) >= w THEN s ELSE Ljust(s \o <<"0">>, w)

\* FIRSClient.generate_irn; business_id is config.business_id (required)
FIRSClient_generate_irn(invoice_number, issue_date, env_sid, config_sid, business_id, now) ==
    LET service_id_source == IF ~Falsy(env_sid) THEN env_sid
                             ELSE IF ~Falsy(config_sid) THEN config_sid
                             ELSE business_id
        kept == KeepAlnum(Upper(service_id_source))
        sanitized_sid == IF kept = <<>> THEN ZUTAX000 ELSE kept
        service_id == Ljust(Prefix(sanitized_sid, ServiceIdLen), ServiceIdLen)
        date_stamp == generate_date_stamp(issue_date, now)
        sanitized_invoice == Upper(DropHyphens(invoice_number))
        original_inv == Upper(invoice_number)
    IN Built(sanitized_invoice \o <<Hyphen>> \o service_id \o <<Hyphen>> \o date_stamp
                 \o <<Hyphen>> \o original_inv,
             service_id, date_stamp)


(***************************************************************************)
(* decimal.Decimal                                                         *)
(*                                                                         *)
(* A Decimal is the number n / 10^e.  Python compares Decimals by value    *)
(* (Decimal("67.5") == Decimal("67.500")), so a Decimal is kept with the   *)
(* fewest fractional digits that write it.  Every product, sum and         *)
(* division by 100 below is exact in Python's 28-digit context for the     *)
(* magnitudes used here.                                                   *)
(***************************************************************************)
RECURSIVE Pow10(_)
Pow10(k) == IF k = 0 THEN 1 ELSE 10 * Pow10(k - 1)

RECURSIVE Dec(_, _)
Dec(n, e) == IF e > 0 /\ n % 10 = 0 THEN Dec(n \div 10, e - 1) ELSE [n |-> n, e |-> e]

\* Python None where a Decimal is expected
NoDec == [n |-> 0, e |-> -1]
Zero == Dec(0, 0)
Hundred == Dec(100, 0)
\* "if x:" on an Optional[Decimal]
Truthy(x) == x # NoDec /\ x.n # 0

MaxE(a, b) == IF a.e >= b.e THEN a.e ELSE b.e
\* the numerator of a over 10^e, for e >= a.e
Scaled(a, e) == a.n * Pow10(e - a.e)
DMul(a, b) == Dec(a.n * b.n, a.e + b.e)
DAdd(a, b) == Dec(Scaled(a, MaxE(a, b)) + Scaled(b, MaxE(a, b)), MaxE(a, b))
DSub(a, b) == Dec(Scaled(a, MaxE(a, b)) - Scaled(b, MaxE(a, b)), MaxE(a, b))
\* x / Decimal("100")
DDiv100(a) == Dec(a.n, a.e + 2)
DAbs(a) == IF a.n < 0 THEN Dec(0 - a.n, a.e) ELSE a
DLe(a, b) == Scaled(a, MaxE(a, b)) <= Scaled(b, MaxE(a, b))
\* digits after the decimal point (pydantic's decimal_places looks at these)
DecimalPlaces(a) == a.e

RECURSIVE DSum(_)
\* sum(...) of a sequence of Decimals; sum of nothing is Python's int 0
DSum(s) == IF s = <<>> THEN Zero ELSE DAdd(s[1], DSum(Tail(s)))

CentPlaces == 2    \* the exponent of Decimal("0.01")
Cent == Dec(1, CentPlaces)

\* x.quantize(Decimal("0.01")) with the fraction beyond the cent dropped
quantize_round_down(x) ==
    IF x.e <= CentPlaces THEN x
    ELSE LET p == Pow10(x.e - CentPlaces)
             m == IF x.n < 0 THEN 0 - x.n ELSE x.n
             q == m \div p
         IN Dec(IF x.n < 0 THEN 0 - q ELSE q, CentPlaces)

\* x.quantize(Decimal("0.01"), rounding=ROUND_HALF_UP): to the nearest cent,
\* a tie going away from zero
quantize(x) ==
    IF x.e <= CentPlaces THEN x
    ELSE LET p == Pow10(x.e - CentPlaces)
             m == IF x.n < 0 THEN 0 - x.n ELSE x.n
             q == IF 2 * (m % p) >= p THEN (m \div p) + 1 ELSE m \div p
         IN Dec(IF x.n < 0 THEN 0 - q ELSE q, CentPlaces)

(***************************************************************************)
(* HSN registry: zutax/managers/hsn_manager.py (the HSNManager that        *)
(* firs_einvoice/managers/tax_manager.py imports has the same interface)   *)
(***************************************************************************)
\* Python None where an exemption reason is expected
NoReason == "<None>"

HSNCode(category, tax_rate, is_exempt, exemption_reason) ==
    [category |-> category, tax_rate |-> tax_rate, is_exempt |-> is_exempt,
     exemption_reason |-> exemption_reason]

\* dict.get without a hit
NoHSNCode == HSNCode("<None>", NoDec, FALSE, NoReason)

VAT_RATE == Dec(75, 1)
STANDARD_VAT == "VAT"

MedicalReason == "Medical equipment and pharmaceuticals - VAT exempt under Nigerian law"
FoodReason == "Basic food items - VAT exempt under Nigerian law"
InfantReason == "Infant and baby products - VAT exempt under Nigerian law"
EducationReason == "Educational materials and books - VAT exempt under Nigerian law"

\* the table that initialize() loads
DefaultHsnDatabase ==
    (<<"3", "0", "0", "4">> :> HSNCode("MEDICAL", Zero, TRUE, MedicalReason)) @@
    (<<"3", "0", "0", "5">> :> HSNCode("MEDICAL", Zero, TRUE, MedicalReason)) @@
    (<<"3", "0", "0", "6">> :> HSNCode("MEDICAL", Zero, TRUE, MedicalReason)) @@
    (<<"1", "0", "0", "1">> :> HSNCode("FOOD_BASIC", Zero, TRUE, FoodReason)) @@
    (<<"1", "0", "0", "6">> :> HSNCode("FOOD_BASIC", Zero, TRUE, FoodReason)) @@
    (<<"0", "4", "0", "1">> :> HSNCode("FOOD_BASIC", Zero, TRUE, FoodReason)) @@
    (<<"1", "9", "0", "1">> :> HSNCode("INFANT", Zero, TRUE, InfantReason)) @@
    (<<"3", "4", "0", "1">> :> HSNCode("INFANT", Zero, TRUE, InfantReason)) @@
    (<<"4", "9", "0", "1">> :> HSNCode("EDUCATION", Zero, TRUE, EducationReason)) @@
    (<<"4", "9", "0", "2">> :> HSNCode("EDUCATION", Zero, TRUE, EducationReason)) @@
    (<<"8", "4", "7", "1">> :> HSNCode("ELECTRONICS", VAT_RATE, FALSE, NoReason)) @@
    (<<"8", "5", "1", "7">> :> HSNCode("ELECTRONICS", VAT_RATE, FALSE, NoReason)) @@
    (<<"8", "7", "0", "3">> :> HSNCode("AUTOMOTIVE", VAT_RATE, FALSE, NoReason)) @@
    (<<"9", "4", "0", "3">> :> HSNCode("FURNITURE", VAT_RATE, FALSE, NoReason)) @@
    (<<"6", "1", "0", "9">> :> HSNCode("TEXTILES", VAT_RATE, FALSE, NoReason))

\* the registry after initialize(): an empty one is loaded with the defaults
initialize(db) == IF DOMAIN db # {} THEN db ELSE DefaultHsnDatabase

ChapterLen == 4    \* digits of the chapter prefix
MinHsnLen == 4
MaxHsnLen == 8

\* the lookup of get_hsn_code without the fall-back to the chapter
get_hsn_code_exact_only(db, code) ==
    LET d == initialize(db)
    IN IF code \in DOMAIN d THEN d[code] ELSE NoHSNCode

get_hsn_code(db, code) ==
    LET d == initialize(db)
    IN IF code \in DOMAIN d THEN d[code]
       ELSE IF Len(code) >= ChapterLen /\ Prefix(code, ChapterLen) \in DOMAIN d
            THEN d[Prefix(code, ChapterLen)]
            ELSE NoHSNCode

is_exempt(db, hsn_code) ==
    LET hsn == get_hsn_code(db, hsn_code)
    IN IF hsn # NoHSNCode THEN hsn.is_exempt ELSE FALSE

get_tax_rate(db, hsn_code) ==
    LET hsn == get_hsn_code(db, hsn_code)
    IN IF hsn # NoHSNCode THEN hsn.tax_rate ELSE VAT_RATE

get_exemption_reason(db, hsn_code) ==
    LET hsn == get_hsn_code(db, hsn_code)
    IN IF hsn # NoHSNCode THEN hsn.exemption_reason ELSE NoReason

\* re.match(r"^\d{4,8}$", code)
validate_hsn_code(code) ==
    /\ Len(code) >= MinHsnLen
    /\ Len(code) <= MaxHsnLen
    /\ \A i \in 1..Len(code) : code[i] \in DigitChars

\* validate_hsn_code of the schema validators: (is_valid, error) reduced to
\* is_valid; the last test is re.match(rules["pattern"], hsn_code)
validators_validate_hsn_code(hsn_code) ==
    IF hsn_code = None \/ Len(hsn_code) = 0 THEN FALSE
    ELSE IF ~IsDigit(hsn_code) THEN FALSE
    ELSE IF Len(hsn_code) < MinHsnLen THEN FALSE
    ELSE IF Len(hsn_code) > MaxHsnLen THEN FALSE
    ELSE IF Len(hsn_code) % 2 # 0 THEN FALSE
    ELSE validate_hsn_code(hsn_code)

\* add_custom_hsn_code: the registry afterwards (unchanged when the code is
\* refused with ValueError)
add_custom_hsn_code(db, code, hsn) ==
    IF validate_hsn_code(code) THEN [c \in DOMAIN db \cup {code} |-> IF c = code THEN hsn ELSE db[c]]
    ELSE db

\* the codes of the default table in the order initialize() adds them
DefaultCodes ==
    <<<<"3", "0", "0", "4">>, <<"3", "0", "0", "5">>, <<"3", "0", "0", "6">>,
      <<"1", "0", "0", "1">>, <<"1", "0", "0", "6">>, <<"0", "4", "0", "1">>,
      <<"1", "9", "0", "1">>, <<"3", "4", "0", "1">>, <<"4", "9", "0", "1">>,
      <<"4", "9", "0", "2">>, <<"8", "4", "7", "1">>, <<"8", "5", "1", "7">>,
      <<"8", "7", "0", "3">>, <<"9", "4", "0", "3">>, <<"6", "1", "0", "9">>>>

\* _hsn_database after clear()
EmptyHsnDatabase == [c \in {} |-> NoHSNCode]

\* remove_hsn_code: the registry after pop(code, None)
remove_hsn_code(db, code) == [c \in DOMAIN db \ {code} |-> db[c]]

\* clear_custom_hsn_codes run alone: clear(), then initialize()
clear_custom_hsn_codes(db) == initialize(EmptyHsnDatabase)

RECURSIVE import_hsn_codes(_, _)
\* import_hsn_codes: each entry with a valid code is stored, the others skipped
import_hsn_codes(db, codes) ==
    IF codes = <<>> THEN db
    ELSE import_hsn_codes(add_custom_hsn_code(db, codes[1].code, codes[1].hsn), Tail(codes))

\* export_hsn_codes: the exported entries, written as the codes they carry
export_hsn_codes(db) == DOMAIN initialize(db)

\* get_statistics: total, exempt and taxable counts
get_statistics(db) ==
    LET d == initialize(db)
        exempt == Cardinality({c \in DOMAIN d : d[c].is_exempt})
    IN [total |-> Cardinality(DOMAIN d), exempt |-> exempt,
        taxable |-> Cardinality(DOMAIN d) - exempt]

(***************************************************************************)
(* Tax engine: firs_einvoice/managers/tax_manager.py                       *)
(*                                                                         *)
(* The float arguments go through Decimal(str(x)); an argument is written  *)
(* here as the Decimal that str(x) spells.                                 *)
(***************************************************************************)
TaxCalculation(category, rate, base_amount, tax_amount, exemption_reason) ==
    [category |-> category, rate |-> rate, base_amount |-> base_amount,
     tax_amount |-> tax_amount, exemption_reason |-> exemption_reason]

NoTaxCalculation == TaxCalculation("<None>", NoDec, NoDec, NoDec, NoReason)

calculate_line_tax(db, amount, hsn_code, custom_rate) ==
    IF ~Falsy(hsn_code) /\ is_exempt(db, hsn_code)
    THEN LET reason == get_exemption_reason(db, hsn_code)
         IN TaxCalculation(STANDARD_VAT, Zero, amount, Zero,
                           IF reason # NoReason /\ reason # "" THEN reason ELSE NoReason)
    ELSE LET rate == IF custom_rate # NoDec THEN custom_rate
                     ELSE IF ~Falsy(hsn_code) THEN get_tax_rate(db, hsn_code)
                     ELSE VAT_RATE
         IN TaxCalculation(STANDARD_VAT, rate, amount,
                           quantize(DDiv100(DMul(amount, rate))), NoReason)

validate_tax_calculation(base_amount, tax_amount, rate) ==
    LET expected_tax == quantize(DDiv100(DMul(base_amount, rate)))
        difference == DAbs(DSub(tax_amount, expected_tax))
    IN DLe(difference, Cent)

\* TAX_CATEGORIES maps its keys onto these categories
VatCategory == "VAT"
ExciseCategory == "EXCISE"
CustomsCategory == "CUSTOMS"

\* an element of the taxes argument: {'category': ..., 'rate': ...}
Tax(category, rate) == [category |-> category, rate |-> rate]

\* the TaxBreakdown of tax_manager.py
TaxManagerBreakdown(vat, excise, customs, other, total, details) ==
    [vat |-> vat, excise |-> excise, customs |-> customs, other |-> other,
     total |-> total, details |-> details]

NoTaxManagerBreakdown == TaxManagerBreakdown(NoDec, NoDec, NoDec, NoDec, NoDec, <<>>)
EmptyBreakdown == TaxManagerBreakdown(Zero, Zero, Zero, Zero, Zero, <<>>)

\* the body of the loop over taxes: one tax computed on base_amount, rounded
\* to the cent, recorded in the details and added to its category and to
\* the total
AddTaxTo(breakdown, tax, base_amount) ==
    LET t == quantize(DDiv100(DMul(base_amount, tax.rate)))
    IN TaxManagerBreakdown(
           IF tax.category = VatCategory THEN DAdd(breakdown.vat, t) ELSE breakdown.vat,
           IF tax.category = ExciseCategory THEN DAdd(breakdown.excise, t) ELSE breakdown.excise,
           IF tax.category = CustomsCategory THEN DAdd(breakdown.customs, t) ELSE breakdown.customs,
           IF tax.category \notin {VatCategory, ExciseCategory, CustomsCategory}
               THEN DAdd(breakdown.other, t) ELSE breakdown.other,
           DAdd(breakdown.total, t),
           Append(breakdown.details,
                  TaxCalculation(tax.category, tax.rate, base_amount, t, NoReason)))

RECURSIVE multiple_taxes_loop(_, _, _)
\* the breakdown after the first k taxes
multiple_taxes_loop(base_amount, taxes, k) ==
    IF k = 0 THEN EmptyBreakdown
    ELSE AddTaxTo(multiple_taxes_loop(base_amount, taxes, k - 1), taxes[k], base_amount)

calculate_multiple_taxes(amount, taxes) == multiple_taxes_loop(amount, taxes, Len(taxes))

RECURSIVE cascading_tax_loop(_, _, _)
\* the breakdown and current_amount after the first k taxes
cascading_tax_loop(amount, taxes, k) ==
    IF k = 0 THEN [breakdown |-> EmptyBreakdown, current_amount |-> amount]
    ELSE LET before == cascading_tax_loop(amount, taxes, k - 1)
             breakdown == AddTaxTo(before.breakdown, taxes[k], before.current_amount)
         IN [breakdown |-> breakdown,
             current_amount |-> DAdd(before.current_amount, breakdown.details[k].tax_amount)]

\* the stacking of calculate_cascading_tax if every tax were computed on the
\* amount passed in
calculate_cascading_tax_on_base(amount, taxes) == multiple_taxes_loop(amount, taxes, Len(taxes))

calculate_cascading_tax(amount, taxes) == cascading_tax_loop(amount, taxes, Len(taxes)).breakdown

\* (total / divisor).quantize(Decimal("0.01")) for total >= 0 and divisor =
\* (100 + tax_rate) / 100 > 0, the quotient cut below the cent: the cents
\* are the whole part of N / D with N = total * 10^4 and D = 100 + tax_rate
\* over a common power of ten
reverse_base_round_down(total, tax_rate) ==
    LET D == Scaled(Hundred, tax_rate.e) + tax_rate.n
        N == total.n * Pow10(CentPlaces + 2 + tax_rate.e - total.e)
    IN Dec(N \div D, CentPlaces)

\* (total / divisor).quantize(Decimal("0.01"), rounding=ROUND_HALF_UP): the
\* quotient, which Python carries to 28 digits, rounded to the nearest cent,
\* a tie going up
reverse_base(total, tax_rate) ==
    LET D == Scaled(Hundred, tax_rate.e) + tax_rate.n
        N == total.n * Pow10(CentPlaces + 2 + tax_rate.e - total.e)
    IN Dec((2 * N + D) \div (2 * D), CentPlaces)

ReverseTax(base_amount, tax_amount) == [base_amount |-> base_amount, tax_amount |-> tax_amount]
NoReverseTax == ReverseTax(NoDec, NoDec)

calculate_reverse_tax(total_amount, tax_rate) ==
    LET base_amount == reverse_base(total_amount, tax_rate)
    IN ReverseTax(base_amount, DSub(total_amount, base_amount))

(***************************************************************************)
(* Line items: firs_einvoice/models/line_item.py                           *)
(*                                                                         *)
(* Every line item here carries the default tax_category (VAT).            *)
(***************************************************************************)
QuantityPlaces == 3     \* decimal_places of LineItem.quantity
MaxCharges == 10        \* max_length of LineItem.charges

Discount(amount, percent) == [present |-> TRUE, amount |-> amount, percent |-> percent]
\* discount=None
NoDiscount == [present |-> FALSE, amount |-> NoDec, percent |-> NoDec]

\* an Optional[Decimal] field with ge=0, le=100, decimal_places=2
PercentOk(x) == x = NoDec \/ (x.n >= 0 /\ DLe(x, Hundred) /\ DecimalPlaces(x) <= CentPlaces)
\* an Optional[Decimal] field with ge=0, decimal_places=2
AmountOk(x) == x = NoDec \/ (x.n >= 0 /\ DecimalPlaces(x) <= CentPlaces)

\* validate_discount(v, info) raises ValueError; values is info.data, the
\* fields validated before the one at hand (NoDec for a field not yet there)
validate_discount_raises(values) == Truthy(values.amount) /\ Truthy(values.percent)

\* Discount(...) is accepted: the field constraints, and validate_discount
\* on `amount` (nothing validated before it) and on `percent` (only `amount`
\* validated before it)
Discount_accepted(d) ==
    \/ ~d.present
    \/ /\ AmountOk(d.amount)
       /\ PercentOk(d.percent)
       /\ ~validate_discount_raises([amount |-> NoDec, percent |-> NoDec])
       /\ ~validate_discount_raises([amount |-> d.amount, percent |-> NoDec])

LineItem(hsn_code, quantity, unit_price, discount, charges, tax_rate, tax_exempt, tax_exempt_reason, discount_percent, tax_exemption_reason) ==
    [hsn_code |-> hsn_code, quantity |-> quantity, unit_price |-> unit_price,
     discount |-> discount, charges |-> charges, tax_rate |-> tax_rate,
     tax_exempt |-> tax_exempt, tax_exempt_reason |-> tax_exempt_reason,
     discount_percent |-> discount_percent, tax_exemption_reason |-> tax_exemption_reason]

\* `not v` for an Optional[str]
NoText(v) == v = NoReason \/ v = ""

\* validate_tax_exempt_reason(v, info) raises ValueError
validate_tax_exempt_reason_raises(tax_exempt, v) == tax_exempt /\ NoText(v)

\* LineItem(...) is accepted: the field constraints and validate_tax_exempt_reason
\* (tax_exempt_reason is validated before tax_exemption_reason, so with the
\* flag and reason as they were passed); `it` holds the arguments
LineItem_accepted(it) ==
    /\ it.hsn_code # None /\ Len(it.hsn_code) >= MinHsnLen /\ Len(it.hsn_code) <= MaxHsnLen
    /\ \A i \in 1..Len(it.hsn_code) : it.hsn_code[i] \in DigitChars
    /\ it.quantity # NoDec /\ it.quantity.n > 0 /\ DecimalPlaces(it.quantity) <= QuantityPlaces
    /\ it.unit_price # NoDec /\ AmountOk(it.unit_price)
    /\ Discount_accepted(it.discount)
    /\ Len(it.charges) <= MaxCharges
    /\ \A i \in 1..Len(it.charges) : it.charges[i] # NoDec /\ AmountOk(it.charges[i])
    /\ it.tax_rate # NoDec /\ PercentOk(it.tax_rate)
    /\ PercentOk(it.discount_percent)
    /\ ~validate_tax_exempt_reason_raises(it.tax_exempt, it.tax_exempt_reason)

\* validate_tax_exemption_reason: a reason passed as tax_exemption_reason
\* sets tax_exempt and tax_exempt_reason of the item under construction
validate_tax_exemption_reason(it) ==
    IF ~NoText(it.tax_exemption_reason)
    THEN [it EXCEPT !.tax_exempt = TRUE, !.tax_exempt_reason = it.tax_exemption_reason]
    ELSE it

base_amount(it) == DMul(it.quantity, it.unit_price)

discount_amount(it) ==
    IF Truthy(it.discount_percent) THEN DDiv100(DMul(base_amount(it), it.discount_percent))
    ELSE IF ~it.discount.present THEN Zero
    ELSE IF Truthy(it.discount.amount) THEN it.discount.amount
    ELSE IF Truthy(it.discount.percent) THEN DDiv100(DMul(base_amount(it), it.discount.percent))
    ELSE Zero

charge_amount(it) == IF it.charges = <<>> THEN Zero ELSE DSum(it.charges)

\* the taxable amount if the charges were left out
taxable_amount_without_charges(it) == DSub(base_amount(it), discount_amount(it))

taxable_amount(it) == DAdd(DSub(base_amount(it), discount_amount(it)), charge_amount(it))

tax_amount(it) ==
    IF it.tax_exempt THEN Zero
    ELSE DDiv100(DMul(taxable_amount(it), it.tax_rate))

line_total(it) == DAdd(taxable_amount(it), tax_amount(it))

(***************************************************************************)
(* Line-item builder: firs_einvoice/builders/line_item_builder.py and      *)
(* is_vat_exempt of firs_einvoice/schemas/validators.py                    *)
(*                                                                         *)
(* _item_data is written as the record of the LineItem arguments, a key    *)
(* that is not set holding None; _charges is its charges field.  The       *)
(* description is always given.                                            *)
(***************************************************************************)
\* VAT_EXEMPT_HSN_CODES: chapters 01 to 24, 30 and 49, and the headings
\* 9018 to 9022, 3401 to 3407 and 1001 to 1008
VAT_EXEMPT_HSN_CODES ==
    {<<"0", d>> : d \in DigitChars \ {"0"}}
    \cup {<<"1", d>> : d \in DigitChars}
    \cup {<<"2", d>> : d \in {"0", "1", "2", "3", "4"}}
    \cup {<<"3", "0">>, <<"4", "9">>}
    \cup {<<"9", "0", "1", "8">>, <<"9", "0", "1", "9">>, <<"9", "0", "2", "0">>,
          <<"9", "0", "2", "1">>, <<"9", "0", "2", "2">>}
    \cup {<<"3", "4", "0", d>> : d \in {"1", "2", "3", "4", "5", "6", "7"}}
    \cup {<<"1", "0", "0", d>> : d \in {"1", "2", "3", "4", "5", "6", "7", "8"}}

ChapterDigits == 2    \* the shorter prefix that is_vat_exempt tries
HeadingDigits == 4    \* the longer prefix that is_vat_exempt tries

is_vat_exempt(hsn_code) ==
    IF Falsy(hsn_code) THEN FALSE
    ELSE \/ hsn_code \in VAT_EXEMPT_HSN_CODES
         \/ Len(hsn_code) >= ChapterDigits /\ Prefix(hsn_code, ChapterDigits) \in VAT_EXEMPT_HSN_CODES
         \/ Len(hsn_code) >= HeadingDigits /\ Prefix(hsn_code, HeadingDigits) \in VAT_EXEMPT_HSN_CODES

HsnExemptReason == "HSN code is VAT exempt"

\* LineItemBuilder(): tax_rate 7.5 and tax_exempt False are set, nothing else
LineItemBuilder_init ==
    LineItem(None, NoDec, NoDec, NoDiscount, <<>>, VAT_RATE, FALSE, NoReason, NoDec, NoReason)

with_hsn_code(b, hsn_code) ==
    IF is_vat_exempt(hsn_code)
    THEN [b EXCEPT !.hsn_code = hsn_code, !.tax_exempt = TRUE,
                   !.tax_exempt_reason = HsnExemptReason]
    ELSE [b EXCEPT !.hsn_code = hsn_code]

with_quantity(b, quantity) == [b EXCEPT !.quantity = quantity]

with_unit_price(b, unit_price) == [b EXCEPT !.unit_price = unit_price]

\* discount_percent is stored before Discount(percent=...) is constructed,
\* so it stays when that constructor raises
with_discount_percent(b, percent) ==
    IF Discount_accepted(Discount(NoDec, percent))
    THEN [b EXCEPT !.discount_percent = percent, !.discount = Discount(NoDec, percent)]
    ELSE [b EXCEPT !.discount_percent = percent]

with_discount_amount(b, amount) ==
    IF Discount_accepted(Discount(amount, NoDec))
    THEN [b EXCEPT !.discount = Discount(amount, NoDec)]
    ELSE b

with_discount(b, discount) == [b EXCEPT !.discount = discount]

\* add_charge: Charge(amount=...) is constructed, then appended
add_charge(b, amount) ==
    IF amount # NoDec /\ AmountOk(amount) THEN [b EXCEPT !.charges = Append(@, amount)]
    ELSE b

with_tax(b, tax_rate) == [b EXCEPT !.tax_rate = tax_rate]

with_tax_exemption(b, reason) ==
    [b EXCEPT !.tax_exempt = TRUE, !.tax_exempt_reason = reason,
              !.tax_exemption_reason = reason, !.tax_rate = Zero]

\* LineItemBuilder.validate() returns True (it raises ValueError otherwise)
LineItemBuilder_validate(b) ==
    /\ ~Falsy(b.hsn_code)
    /\ Truthy(b.quantity)
    /\ b.quantity.n > 0
    /\ b.unit_price # NoDec
    /\ b.unit_price.n >= 0
    /\ ~(b.tax_exempt /\ NoText(b.tax_exempt_reason))

\* no line item
NoLineItem ==
    LineItem(None, NoDec, NoDec, NoDiscount, <<>>, NoDec, FALSE, NoReason, NoDec, NoReason)

\* LineItem(...): the item, or NoLineItem when ValidationError is raised
LineItem_new(args) ==
    IF LineItem_accepted(args) THEN validate_tax_exemption_reason(args) ELSE NoLineItem

\* LineItemBuilder.build(): the item, or NoLineItem when it raises
build(b) == IF LineItemBuilder_validate(b) THEN LineItem_new(b) ELSE NoLineItem

(***************************************************************************)
(* Invoices: firs_einvoice/models/invoice.py, firs_einvoice/models/tax.py  *)
(* and zutax/models/invoice.py                                             *)
(***************************************************************************)
\* sum(item.base_amount for item in items) and its like
SumBase(items) == DSum([i \in 1..Len(items) |-> base_amount(items[i])])
SumDiscount(items) == DSum([i \in 1..Len(items) |-> discount_amount(items[i])])
SumCharge(items) == DSum([i \in 1..Len(items) |-> charge_amount(items[i])])
SumTaxable(items) == DSum([i \in 1..Len(items) |-> taxable_amount(items[i])])
SumTax(items) == DSum([i \in 1..Len(items) |-> tax_amount(items[i])])
SumLineTotal(items) == DSum([i \in 1..Len(items) |-> line_total(items[i])])
\* the taxable amounts of the exempt items, as detail.exempt_amount adds them up
SumExempt(items) == DSum([i \in 1..Len(items) |-> IF items[i].tax_exempt THEN taxable_amount(items[i]) ELSE Zero])

\* TaxBreakdown with its stored fields; tax_details holds the one TaxDetail of
\* the VAT category, of which the tax_amount is kept
TaxBreakdown(subtotal, total_discount, total_charges, taxable, detail_tax_amount) ==
    [present |-> TRUE, subtotal |-> subtotal, total_discount |-> total_discount,
     total_charges |-> total_charges, taxable_amount |-> taxable,
     detail_tax_amount |-> detail_tax_amount]
\* tax_breakdown=None
NoTaxBreakdown ==
    [present |-> FALSE, subtotal |-> NoDec, total_discount |-> NoDec,
     total_charges |-> NoDec, taxable_amount |-> NoDec, detail_tax_amount |-> NoDec]

TaxBreakdown_total_tax(tb) == tb.detail_tax_amount
TaxBreakdown_total_amount(tb) == DAdd(tb.taxable_amount, TaxBreakdown_total_tax(tb))

\* the assignments to the TaxDetail inside calculate_tax_breakdown pass the
\* field constraints (ge=0, decimal_places=2) after every item
TaxDetail_accepted(items) ==
    /\ PercentOk(items[1].tax_rate)
    /\ \A k \in 1..Len(items) :
         /\ AmountOk(SumTaxable(SubSeq(items, 1, k)))
         /\ AmountOk(SumTax(SubSeq(items, 1, k)))
         /\ AmountOk(SumExempt(SubSeq(items, 1, k)))

\* the model validator calculate_tax_breakdown when no breakdown was given
calculate_tax_breakdown(items) ==
    LET subtotal == SumBase(items)
        total_discount == SumDiscount(items)
        total_charges == SumCharge(items)
        taxable == DAdd(DSub(subtotal, total_discount), total_charges)
    IN IF /\ TaxDetail_accepted(items)
          /\ \A x \in {subtotal, total_discount, total_charges, taxable} : AmountOk(x)
       THEN TaxBreakdown(subtotal, total_discount, total_charges, taxable,
                         SumTax(items))
       ELSE NoTaxBreakdown

\* irn, qr_code, signature = None
NoArtifact == "<None>"

Invoice(impl, line_items, tax_breakdown, subtotal, total_discount, total_charges, total_tax, total_amount, irn, qr_code, signature) ==
    [impl |-> impl, line_items |-> line_items, tax_breakdown |-> tax_breakdown,
     subtotal |-> subtotal, total_discount |-> total_discount,
     total_charges |-> total_charges, total_tax |-> total_tax,
     total_amount |-> total_amount, irn |-> irn, qr_code |-> qr_code,
     signature |-> signature]

\* no invoice: before construction, or the constructor raised ValidationError
NoInvoice == Invoice("none", <<>>, NoTaxBreakdown, NoDec, NoDec, NoDec, NoDec, NoDec,
                     NoArtifact, NoArtifact, NoArtifact)

\* firs_einvoice Invoice(line_items=items): the totals are computed
\* properties and hold nothing; the breakdown is computed and stored
firs_Invoice(items) ==
    IF items = <<>> \/ ~calculate_tax_breakdown(items).present THEN NoInvoice
    ELSE Invoice("firs", items, calculate_tax_breakdown(items),
                 NoDec, NoDec, NoDec, NoDec, NoDec, NoArtifact, NoArtifact, NoArtifact)

\* zutax Invoice(line_items=items): the totals are stored fields, None until
\* the caller sets them
zutax_Invoice(items) ==
    IF items = <<>> THEN NoInvoice
    ELSE Invoice("zutax", items, NoTaxBreakdown,
                 NoDec, NoDec, NoDec, NoDec, NoDec, NoArtifact, NoArtifact, NoArtifact)

\* what reading invoice.subtotal, ... returns
Invoice_subtotal(i) ==
    IF i.impl = "firs" THEN SumBase(i.line_items) ELSE i.subtotal
Invoice_total_discount(i) ==
    IF i.impl = "firs" THEN SumDiscount(i.line_items) ELSE i.total_discount
Invoice_total_charges(i) ==
    IF i.impl = "firs" THEN SumCharge(i.line_items) ELSE i.total_charges
Invoice_total_tax(i) ==
    IF i.impl = "firs" THEN SumTax(i.line_items) ELSE i.total_tax
Invoice_total_amount(i) ==
    IF i.impl = "firs" THEN SumLineTotal(i.line_items) ELSE i.total_amount

(***************************************************************************)
(* Signing: zutax/crypto/firs_signing.py                                   *)
(***************************************************************************)
\* Key and certificate texts.  A text is absent (None), the empty string, a
\* PEM block (with its BEGIN/END markers) around a key body, the base64
\* encoding of such a PEM block, or an opaque certificate string.
Text(form, body) == [form |-> form, body |-> body]
NoneText == Text("none", "")
EmptyText == Text("empty", "")
Pem(body) == Text("pem", body)
Base64Pem(body) == Text("b64", body)
Certificate(body) == Text("cert", body)

\* bool(text)
TextTruthy(t) == t.form \notin {"none", "empty"}

\* "-----BEGIN PUBLIC KEY-----" in public_key_input
has_pem_markers(t) == t.form = "pem"

\* base64.b64decode(t).decode("utf-8"): the PEM block of a base64-wrapped
\* one, "" for ""; a raw PEM block is not base64 text (its markers and line
\* breaks are dropped, what is left has a bad length or padding, or decodes
\* to bytes that are not UTF-8), an opaque certificate does not decode to
\* text, None is no bytes-like object
b64decode_utf8(t) ==
    CASE t.form = "b64" -> [ok |-> TRUE, text |-> Pem(t.body)]
      [] t.form = "empty" -> [ok |-> TRUE, text |-> EmptyText]
      [] OTHER -> [ok |-> FALSE, text |-> NoneText]

\* the key bodies RSA.import_key accepts
RsaKeyBodies == {"K1", "K2"}

\* RSA.import_key(pem) succeeds
import_key_ok(pem) == pem.form = "pem" /\ pem.body \in RsaKeyBodies

\* the key file of the fall-back: absent, or its two JSON members
KeyFile(public_key, certificate) == [exists |-> TRUE, public_key |-> public_key, certificate |-> certificate]
NoKeyFile == [exists |-> FALSE, public_key |-> NoneText, certificate |-> NoneText]

\* FIRSSigner.__init__ and _load_firs_keys: the two attributes afterwards;
\* an exception while loading leaves both None
load_firs_keys(env_key, env_cert, key_file) ==
    IF TextTruthy(env_key) /\ TextTruthy(env_cert)
    THEN IF b64decode_utf8(env_key).ok
         THEN [firs_public_key_pem |-> b64decode_utf8(env_key).text, firs_certificate |-> env_cert]
         ELSE [firs_public_key_pem |-> NoneText, firs_certificate |-> NoneText]
    ELSE IF key_file.exists /\ b64decode_utf8(key_file.public_key).ok
         THEN [firs_public_key_pem |-> b64decode_utf8(key_file.public_key).text,
               firs_certificate |-> key_file.certificate]
         ELSE [firs_public_key_pem |-> NoneText, firs_certificate |-> NoneText]

\* FIRSSigner.is_configured
is_configured(s) == TextTruthy(s.firs_public_key_pem) /\ TextTruthy(s.firs_certificate)

\* the public key encrypt_for_qr hands to RSA.import_key
decode_key_input(public_key_input) ==
    IF has_pem_markers(public_key_input) THEN [ok |-> TRUE, text |-> public_key_input]
    ELSE b64decode_utf8(public_key_input)

\* sign_irn(irn, timestamp): None is a timestamp that was not passed
Timestamp(value) == [given |-> TRUE, value |-> value]
NoTimestamp == [given |-> FALSE, value |-> 0]

\* ts = timestamp or int(time.time())
sign_ts(timestamp, now) ==
    IF timestamp.given /\ timestamp.value # 0 THEN timestamp.value ELSE now

\* str(n) of an int
RECURSIVE NatStr(_)
NatStr(n) == IF n < 10 THEN <<DigitOf(n)>> ELSE NatStr(n \div 10) \o <<DigitOf(n % 10)>>
IntStr(n) == IF n < 0 THEN <<Hyphen>> \o NatStr(-n) ELSE NatStr(n)

\* f"{irn}.{ts}"
irn_with_timestamp(irn, ts) == irn \o <<".">> \o IntStr(ts)

\* FIRSSigningPayload(irn=..., certificate=self.firs_certificate or "")
FIRSSigningPayload(irn, certificate) ==
    [irn |-> irn, certificate |-> IF TextTruthy(certificate) THEN certificate ELSE EmptyText]
NoPayload == [irn |-> None, certificate |-> NoneText]

\* base64 of cipher.encrypt(json.dumps({"irn": ..., "certificate": ...})):
\* determined by the payload and the key (the random padding left aside)
Ciphertext(payload, key) == [payload |-> payload, key |-> key]
NoCiphertext == [payload |-> NoPayload, key |-> NoneText]

\* the stages of a signing operation
SignStages == <<"Unsigned", "PayloadBuilt", "Encrypted", "Done">>

\* FIRSSigningResult(encrypted_data, timestamp, irn_with_timestamp), and
\* the text encrypt_for_qr returns
FIRSSigningResult(encrypted_data, timestamp, irn_ts) ==
    [encrypted_data |-> encrypted_data, timestamp |-> timestamp, irn_with_timestamp |-> irn_ts]
NoSigningResult == FIRSSigningResult(NoCiphertext, 0, None)

\* a signer and the call it is running.  pc: idle, unsigned, payload_built,
\* configured, key_imported, encrypted, done, failed; env_key and
\* env_certificate are what the signer was loaded from, key is the PEM text
\* handed to RSA.import_key, fits tells whether the payload is short enough
\* for the key, trace lists the stages entered, encrypts counts the calls of
\* cipher.encrypt
NoSigner ==
    [pc |-> "idle", op |-> "none", firs_public_key_pem |-> NoneText, firs_certificate |-> NoneText,
     irn |-> None, timestamp |-> NoTimestamp, now |-> 0, ts |-> 0, certificate |-> NoneText,
     public_key_input |-> NoneText, key |-> NoneText, fits |-> TRUE, payload |-> NoPayload,
     cipher |-> NoCiphertext, trace |-> <<>>, encrypts |-> 0, error |-> "none",
     result |-> NoSigningResult, env_key |-> NoneText, env_certificate |-> NoneText]

\* the signer s with no call running
signer_idle(s) ==
    [NoSigner EXCEPT !.firs_public_key_pem = s.firs_public_key_pem,
                     !.firs_certificate = s.firs_certificate,
                     !.env_key = s.env_key, !.env_certificate = s.env_certificate]

\* a failure that starts the operation over
sign_raise_and_retry(s, error) == [s EXCEPT !.pc = "unsigned", !.error = error]

\* raise RuntimeError(...): the exception leaves the operation
sign_raise(s, error) == [s EXCEPT !.pc = "failed", !.error = error]

\* rsa_key = RSA.import_key(pem); cipher = PKCS1_v1_5.new(rsa_key)
import_key_step(s) ==
    IF import_key_ok(s.key) THEN [s EXCEPT !.pc = "key_imported"]
    ELSE sign_raise(s, "encryption failed")

\* cipher.encrypt(json.dumps(payload).encode("utf-8")) and base64.b64encode
encrypt_step(s) ==
    IF s.fits
    THEN [s EXCEPT !.pc = "encrypted", !.cipher = Ciphertext(s.payload, s.key),
                   !.trace = Append(s.trace, "Encrypted"), !.encrypts = s.encrypts + 1]
    ELSE sign_raise([s EXCEPT !.encrypts = s.encrypts + 1], "encryption failed")

(***************************************************************************)
(* Resource cache: zutax/cache/resource_cache.py                           *)
(***************************************************************************)
DefaultTtl == 300    \* cache_ttl of the configuration, and the fall-back

\* Python None where a cached value or a ttl is expected
NoValue == "None"
NoTtl == -1

CacheEntry(data, timestamp, ttl) == [data |-> data, timestamp |-> timestamp, ttl |-> ttl]
NoEntries == [k \in {} |-> CacheEntry(NoValue, 0, 0)]
NoStats == [hits |-> 0, misses |-> 0, sets |-> 0, deletes |-> 0]

\* ResourceCache._is_expired at time now
is_expired(entry, now) == now - entry.timestamp > entry.ttl

\* ResourceCache._cleanup_expired: _cache afterwards
cleanup_expired(cache, now) ==
    [k \in {j \in DOMAIN cache : ~(now - cache[j].timestamp > cache[j].ttl)} |-> cache[k]]

\* del self._cache[key]
dict_del(cache, key) == [k \in DOMAIN cache \ {key} |-> cache[k]]

\* self._cache[key] = entry
dict_put(cache, key, entry) ==
    [k \in DOMAIN cache \cup {key} |-> IF k = key THEN entry ELSE cache[k]]

\* The operations below take the instance c (_cache, _stats, default_ttl)
\* and the time, and give the instance afterwards and the value returned.
Returned(c, value) == [c |-> c, value |-> value]

\* ResourceCache.get
ResourceCache_get(c, key, now) ==
    LET cleaned == cleanup_expired(c._cache, now)
    IN IF key \in DOMAIN cleaned
       THEN IF ~is_expired(cleaned[key], now)
            THEN Returned([c EXCEPT !._cache = cleaned, !._stats.hits = @ + 1], cleaned[key].data)
            ELSE Returned([c EXCEPT !._cache = dict_del(cleaned, key), !._stats.misses = @ + 1],
                          NoValue)
       ELSE Returned([c EXCEPT !._cache = cleaned, !._stats.misses = @ + 1], NoValue)

\* ResourceCache.set
ResourceCache_set(c, key, value, ttl, now) ==
    LET t == IF ttl # NoTtl /\ ttl # 0 THEN ttl ELSE c.default_ttl
    IN Returned([c EXCEPT !._cache = dict_put(c._cache, key, CacheEntry(value, now, t)),
                          !._stats.sets = @ + 1], TRUE)

\* ResourceCache.has
ResourceCache_has(c, key, now) ==
    IF key \in DOMAIN c._cache
    THEN IF ~is_expired(c._cache[key], now) THEN Returned(c, TRUE)
         ELSE Returned([c EXCEPT !._cache = dict_del(c._cache, key)], FALSE)
    ELSE Returned(c, FALSE)

\* ResourceCache.delete
ResourceCache_delete(c, key) ==
    IF key \in DOMAIN c._cache
    THEN Returned([c EXCEPT !._cache = dict_del(c._cache, key), !._stats.deletes = @ + 1], TRUE)
    ELSE Returned(c, FALSE)

\* ResourceCache.clear
ResourceCache_clear(c) == Returned([c EXCEPT !._cache = NoEntries], NoValue)

\* ResourceCache.update_ttl
ResourceCache_update_ttl(c, key, ttl, now) ==
    IF key \in DOMAIN c._cache
    THEN Returned([c EXCEPT !._cache[key].ttl = ttl, !._cache[key].timestamp = now], TRUE)
    ELSE Returned(c, FALSE)

\* ResourceCache.get_many: the loop over keys[i..], result being the dict
\* built so far
RECURSIVE get_many_loop(_, _, _, _, _)
get_many_loop(c, keys, i, result, now) ==
    IF i > Len(keys) THEN Returned(c, result)
    ELSE LET key == keys[i]
         IN IF key \in DOMAIN c._cache
            THEN IF ~is_expired(c._cache[key], now)
                 THEN get_many_loop([c EXCEPT !._stats.hits = @ + 1], keys, i + 1,
                                    dict_put(result, key, c._cache[key].data), now)
                 ELSE get_many_loop([c EXCEPT !._cache = dict_del(c._cache, key),
                                              !._stats.misses = @ + 1], keys, i + 1, result, now)
            ELSE get_many_loop([c EXCEPT !._stats.misses = @ + 1], keys, i + 1, result, now)

NoResult == [k \in {} |-> NoValue]

ResourceCache_get_many(c, keys, now) ==
    get_many_loop([c EXCEPT !._cache = cleanup_expired(c._cache, now)], keys, 1, NoResult, now)

\* ResourceCache.set_many: entries are (key, value, ttl), NoTtl for an
\* entry without "ttl"
RECURSIVE set_many_loop(_, _, _, _)
set_many_loop(c, entries, i, now) ==
    IF i > Len(entries) THEN Returned(c, TRUE)
    ELSE LET e == entries[i]
             t == IF e.ttl # NoTtl THEN e.ttl ELSE c.default_ttl
         IN set_many_loop([c EXCEPT !._cache = dict_put(c._cache, e.key, CacheEntry(e.value, now, t)),
                                    !._stats.sets = @ + 1], entries, i + 1, now)

ResourceCache_set_many(c, entries, now) == set_many_loop(c, entries, 1, now)

\* a read (get, has, get_many): the keys whose value it returned, and the
\* keys that had lapsed when it ran
Read(op, retrieved, lapsed) == [op |-> op, retrieved |-> retrieved, lapsed |-> lapsed]
NoRead == Read("none", {}, {})

\* The class and its one instance.  instance: cls._instance is not None;
\* initialized: the attribute _initialized of the instance ("unset" until
\* __new__ has set it); class_lock: the thread holding cls._lock, or NoThread;
\* imported: the module has run to its end; now: the clock.  Kept beside the
\* program's state: instances and inits count the objects created and the
\* runs of the body of __init__, stored holds the keys stored and not
\* deleted or expired since, lapsed the keys whose entry's TTL has elapsed
\* since it was stored, factory_calls counts the factory runs of get_or_set,
\* last is the last read.
NoThread == -1
ImportThread == 0

ClassDefined ==
    [instance |-> FALSE, initialized |-> "unset", class_lock |-> NoThread, imported |-> FALSE,
     _cache |-> NoEntries, _stats |-> NoStats, default_ttl |-> DefaultTtl, now |-> 0,
     instances |-> 0, inits |-> 0, stored |-> {}, lapsed |-> {}, factory_calls |-> 0,
     last |-> NoRead]

\* any thread may call ResourceCache() at any time
may_construct_any_time(c, t) == TRUE

\* a thread can call ResourceCache() once it has imported the module, which
\* runs resource_cache = ResourceCache() under the import lock: the thread
\* importing it constructs first, every other thread after the import ended
may_construct(c, t) == t = ImportThread \/ c.imported

\* the keys whose entry is expired at time now
expired_keys(cache, now) == {k \in DOMAIN cache : is_expired(cache[k], now)}

\* a thread: where it stands, and the locals of its call
Thread(pc, key, value, ret) == [pc |-> pc, key |-> key, value |-> value, ret |-> ret]
IdleThread == Thread("idle", "", NoValue, NoValue)


(***************************************************************************)
(* Invoice processor: firs_einvoice/processors/invoice_processor.py        *)
(***************************************************************************)
\* the steps of process_invoice, in the order of the code
ProcessingSteps == <<"input_validation", "build", "final_validation", "irn", "qr">>

\* the invoice dictionary handed in, by what the steps make of it:
\* InvoiceInput(**data) accepts it or not, InvoiceBuilder.build() returns an
\* invoice with its invoice_number or raises, model_validate of the built
\* invoice passes or not
InvoiceInput(valid, invoice_number, buildable, revalidates) ==
    [valid |-> valid, invoice_number |-> invoice_number, buildable |-> buildable,
     revalidates |-> revalidates]
NoInvoiceInput == InvoiceInput(FALSE, None, FALSE, FALSE)

\* the Invoice object of the processor: its number and its two artifacts
BuiltInvoice(invoice_number, irn, qr_code) ==
    [invoice_number |-> invoice_number, irn |-> irn, qr_code |-> qr_code]
NoBuiltInvoice == BuiltInvoice(None, None, None)

\* what a call gives: its value, or the exception it raises with str(error)
Outcome(ok, value, message) == [ok |-> ok, value |-> value, message |-> message]
Raises(message) == Outcome(FALSE, None, message)
NoOutcome == Outcome(TRUE, None, "")

\* ValidationError(field=..., message=..., code=...): a StrictBaseModel, whose
\* str_min_length = 1 refuses an empty string
ValidationError(field, message, code) ==
    IF field = "" \/ message = "" \/ code = ""
    THEN Raises("String should have at least 1 character")
    ELSE Outcome(TRUE, [field |-> field, message |-> message, code |-> code], "")

\* '.'.join(str(p) for p in error.get('path', [])), the path of the errors
\* of validate_invoice_input being []
validation_error_field == ""

\* Invoice.irn: pattern ^[A-Z0-9\-]+$, checked on assignment
irn_field_ok(irn) ==
    Len(irn) > 0 /\ \A i \in 1..Len(irn) : irn[i] \in UpperChars \cup DigitChars \cup {Hyphen}

\* the base64 PNG of the QR code made for an IRN
QrCode(irn) == <<"P", "N", "G", ":">> \o irn

\* FIRSQRCodeGenerator.generate_qr_code(invoice, irn, options=None) called
\* with the positional arguments args: both invoice and irn are required
FIRSQRCodeGenerator_generate_qr_code(args, configured) ==
    IF Len(args) < 2
    THEN Raises("generate_qr_code() missing 1 required positional argument: 'irn'")
    ELSE IF ~configured THEN Raises("FIRS keys not configured. Cannot generate QR code.")
    ELSE Outcome(TRUE, QrCode(args[2]), "")

ProcessingResult(success, invoice, irn, qr_code, errors) ==
    [success |-> success, invoice |-> invoice, irn |-> irn, qr_code |-> qr_code,
     errors |-> errors]
NoProcessingResult == ProcessingResult(FALSE, NoBuiltInvoice, None, None, <<>>)

\* a failure result that hands out what the steps had produced so far
failure_with_progress(p, errors) ==
    ProcessingResult(FALSE, p.invoice, p.irn, p.qr_code, errors)

\* ProcessingResult(success=False, errors=...): invoice, irn and qr_code are
\* left at their default None
failure(p, errors) == ProcessingResult(FALSE, NoBuiltInvoice, None, None, errors)

\* a call of process_invoice.  pc: the step it stands before; steps: the
\* steps run; invoice, irn, qr_code: its locals; error: the exception on its
\* way to the except clause; result: what it returned; env_sid, gen, now,
\* configured: FIRS_SERVICE_ID, the service ID drawn when that is unset, the
\* date, and whether the FIRS keys are configured.
NoProcess ==
    [pc |-> "idle", input |-> NoInvoiceInput, steps |-> <<>>, invoice |-> NoBuiltInvoice,
     irn |-> None, qr_code |-> None, error |-> NoOutcome, result |-> NoProcessingResult,
     env_sid |-> None, gen |-> None, now |-> NoDate, configured |-> FALSE]

\* the step named is begun
begin_step(p, step) == [p EXCEPT !.steps = Append(@, step)]

\* an exception leaves the try block
to_except(p, outcome) == [p EXCEPT !.pc = "except", !.error = outcome]

\* return ProcessingResult(...)
to_return(p, result) == [p EXCEPT !.pc = "returned", !.result = result]

(***************************************************************************)
(* Inputs of the IRN operations                                            *)
(***************************************************************************)
MaxInvLen == 4     \* longest invoice number tried
MaxSidLen == 9     \* longest service ID tried (one more than ServiceIdLen)

SeqsUpTo(S, n) == UNION {[1..k -> S] : k \in 0..n}

\* invoice numbers: letters and hyphens, the empty one included
InvoiceNumbers == SeqsUpTo({"A", Hyphen}, MaxInvLen)

\* service IDs: empty, one character, and around the 8 characters of the
\* grammar; upper or lower case, the last character possibly not alphanumeric
SidLens == {0, 1} \cup ((ServiceIdLen - 1)..MaxSidLen)
SidSet == {[i \in 1..L |-> IF i = L THEN c2 ELSE c1] :
              L \in SidLens, c1 \in {"A", "a"}, c2 \in {"A", Hyphen, "_"}}
OptSids == SidSet \cup {None}
EnvSids == {None, <<"b", "B", "B", "B", "B", "B", "B", "B">>}
GeneratedSids == {<<"0", "1", "2", "3", "A", "B", "A", "B">>}
BusinessIds == {<<"A", "B", Hyphen, "A">>}

Dates == {dt \in [y : {2023, 2024}, m : {2, 12}, d : {29, 31}] : ValidDate(dt.y, dt.m, dt.d)}
OptDates == Dates \cup {NoDate}
NowDates == {Date(2024, 12, 31), Date(2023, 12, 29)}
\* datetime.now() is read only when there is no issue date
Nows(d) == IF d = NoDate THEN NowDates ELSE {d}

\* the Invoice instances handed to ZutaxClient.generate_irn, and the
\* service IDs of the configuration
ClientInvoices == {Invoice_attributes(INV001, d) : d \in Dates}
ClientSids == {ZUTAX000}

\* date-stamp tokens of raw input: 8 digits that are or are not a date, 7
\* digits, and 8 characters one of which is a letter
DateTokens == {Pad(y, 4) \o Pad(m, 2) \o Pad(d, 2) : y \in {0, 2023, 2024}, m \in {2, 12, 13}, d \in {0, 29, 31}}
              \cup {<<"2", "0", "2", "4", "1", "2", "3">>,
                    <<"2", "0", "2", "4", "1", "2", "3", "A">>}

\* strings handed to validate_irn and extract_components directly
RawIrns == InvoiceNumbers \cup
           {Fmt3(n, s, t) : n \in InvoiceNumbers, s \in SidSet, t \in DateTokens}

(***************************************************************************)
(* Inputs of the tax engine                                                *)
(***************************************************************************)
MaxAmountCents == 120     \* every amount from 0.00 up to this many cents is tried

\* amounts: every cent value up to the bound, and 10.10 and 1000.00
Amounts == {Dec(c, CentPlaces) : c \in 0..MaxAmountCents} \cup {Dec(101, 1), Dec(1000, 0)}
\* rates: 0, 0.5, 7.5, 12.25 and 100 percent
Rates == {Zero, Dec(5, 1), VAT_RATE, Dec(1225, 2), Hundred}
OptRates == Rates \cup {NoDec}

\* two codes of the default table: a taxable one and an exempt one
Computers == <<"8", "4", "7", "1">>
Medicines == <<"3", "0", "0", "4">>

\* HSN codes: none; with and without an exact entry, taxed and exempt; unknown
HsnInputs == {None,
              Computers,
              Medicines,
              <<"3", "0", "0", "4", "9", "0">>,
              <<"9", "9", "9", "9">>}

\* entries handed to add_custom_hsn_code: a new code, a default code made
\* exempt, and a code of two digits
CustomHsnCodes ==
    {[code |-> <<"9", "9", "9", "9">>, hsn |-> HSNCode("CUSTOM", Dec(5, 0), FALSE, NoReason)],
     [code |-> <<"8", "4", "7", "1">>, hsn |-> HSNCode("CUSTOM", Zero, TRUE, "Custom exemption")],
     [code |-> <<"9", "9">>, hsn |-> HSNCode("CUSTOM", Dec(5, 0), FALSE, NoReason)]}

\* what a caller adds to a computed tax before it asks for its validation
TaxOffsets == {Zero, Cent, Dec(2, CentPlaces)}

MaxTaxes == 2    \* most taxes stacked in one call

\* base amounts of the stacked-tax calls
StackAmounts == {Dec(1000, 0), Dec(101, 1), Dec(5, CentPlaces)}
\* taxes: VAT at 10 and at 7.5 percent, an excise at 5, a duty at 12.25, and a
\* levy of no known category at 10
StackTaxes == {Tax(VatCategory, Dec(10, 0)), Tax(VatCategory, VAT_RATE),
               Tax(ExciseCategory, Dec(5, 0)), Tax(CustomsCategory, Dec(1225, 2)),
               Tax("LEVY", Dec(10, 0))}
TaxLists == UNION {[1..k -> StackTaxes] : k \in 0..MaxTaxes}

MaxReverseCents == 120    \* every total from 0.00 up to this many cents is tried

\* tax-inclusive totals, and the rates they include
ReverseTotals == {Dec(c, CentPlaces) : c \in 0..MaxReverseCents}
                 \cup {Dec(10750, CentPlaces), Dec(5, 3)}
ReverseRates == {Zero, Dec(5, 0), VAT_RATE, Dec(1225, 2), Hundred}

(***************************************************************************)
(* Inputs of the line-item and invoice operations                          *)
(***************************************************************************)
MaxItems == 2      \* most line items on an invoice

Quantities == {Zero, Dec(1, 0), Dec(10, 0)}
UnitPrices == {Dec(100, 0), Dec(101, 1)}
\* discounted items: discount_percent=10; Discount(amount=1) with a charge of
\* 5; Discount(percent=101), which the field constraint refuses
DiscountForms ==
    {[discount |-> NoDiscount, discount_percent |-> Dec(10, 0), charges |-> <<>>],
     [discount |-> Discount(Dec(1, 0), NoDec), discount_percent |-> NoDec,
      charges |-> <<Dec(5, 0)>>],
     [discount |-> Discount(NoDec, Dec(101, 0)), discount_percent |-> NoDec,
      charges |-> <<>>]}
ExemptReasons == {NoReason, "Export"}

\* the arguments of LineItem(...): plain items of every quantity and price,
\* 10 units at 100.00 under every discount form, and an exempt item with and
\* without its reason
LineItemInputs ==
    {LineItem(Computers, q, p, NoDiscount, <<>>, VAT_RATE, FALSE, NoReason, NoDec, NoReason) :
        q \in Quantities, p \in UnitPrices}
    \cup {LineItem(Computers, Dec(10, 0), Dec(100, 0), f.discount, f.charges, VAT_RATE, FALSE,
                   NoReason, f.discount_percent, NoReason) : f \in DiscountForms}
    \cup {LineItem(Computers, Dec(1, 0), Dec(100, 0), NoDiscount, <<>>, VAT_RATE, TRUE, r, NoDec, NoReason) :
             r \in ExemptReasons}

\* the line items that exist
LineItems == {it \in LineItemInputs : LineItem_accepted(it)}

ItemLists == UNION {[1..k -> LineItems] : k \in 0..MaxItems}

TotalFields == {"subtotal", "total_discount", "total_charges", "total_tax", "total_amount"}
\* values assigned to a stored total: 100 and 0.001
TotalValues == {Dec(100, 0), Dec(1, 3)}

(***************************************************************************)
(* Inputs of the HSN registry operations                                   *)
(***************************************************************************)
MaxImport == 2    \* most entries in one import_hsn_codes call

Laptops == <<"8", "4", "7", "1", "3", "0", "0", "0">>
Servers == <<"8", "4", "7", "1", "5", "0", "0", "0">>
Custom1 == <<"9", "9", "9", "9">>
Custom2 == <<"9", "9", "9", "8">>
TooShort == <<"9", "9">>
Tablets == <<"3", "0", "0", "4", "9", "0">>

FiveDigits == <<"7", "7", "7", "7", "7">>
\* entries handed to add_custom_hsn_code and import_hsn_codes: a new code at
\* 5 percent, a new code that is exempt and carries 7.5 percent, an 8-digit
\* code under a default chapter at 10 percent, a code of two digits and a
\* code of five digits
RegistryEntries ==
    {[code |-> Custom1, hsn |-> HSNCode("CUSTOM", Dec(5, 0), FALSE, NoReason)],
     [code |-> Custom2, hsn |-> HSNCode("CUSTOM", VAT_RATE, TRUE, "Custom exemption")],
     [code |-> Laptops, hsn |-> HSNCode("ELECTRONICS", Dec(10, 0), FALSE, NoReason)],
     [code |-> TooShort, hsn |-> HSNCode("CUSTOM", Dec(5, 0), FALSE, NoReason)],
     [code |-> FiveDigits, hsn |-> HSNCode("CUSTOM", Dec(5, 0), FALSE, NoReason)]}
ImportLists == UNION {[1..k -> RegistryEntries] : k \in 0..MaxImport}

\* the codes looked up: default codes, added codes, codes known only by their
\* chapter, an unknown code and a short one
LookupCodes == {Computers, Medicines, Laptops, Servers, Tablets, Custom1, Custom2, TooShort,
                FiveDigits}

\* the codes handed to remove_hsn_code in the registry db: an added code or
\* an absent one at any time, the default entries in the order of the table
RemovableCodes(db) ==
    {Custom1, Custom2, Laptops}
    \cup {DefaultCodes[i] : i \in {j \in 1..Len(DefaultCodes) :
                                     /\ DefaultCodes[j] \in DOMAIN db
                                     /\ \A h \in 1..(j - 1) : DefaultCodes[h] \notin DOMAIN db}}

(***************************************************************************)
(* Inputs of the line-item operations                                      *)
(***************************************************************************)
MaxBuilderCharges == 1    \* most charges added to one builder

BuilderHsnCodes == {Computers, Medicines}
BuilderQuantities == {Zero, Dec(10, 0)}
BuilderPrices == {Dec(100, 0)}
BuilderPercents == {Dec(10, 0)}
BuilderAmounts == {Dec(1, 0)}
BuilderCharges == {Dec(5, 0)}
BuilderRates == {VAT_RATE, Dec(5, 0)}
BuilderReasons == {"", "Export"}

\* the arguments of a direct LineItem(...) call: 10 units at 100.00 with
\* discount_percent=10; medicines at the standard rate; an exempt item with
\* and without tax_exempt_reason; an item with tax_exemption_reason; an item
\* with Discount(amount=1, percent=10); an item with discount_percent=10 and
\* Discount(amount=1)
LineItemArgs ==
    {LineItem(Computers, Dec(10, 0), Dec(100, 0), NoDiscount, <<>>, VAT_RATE, FALSE, NoReason, Dec(10, 0), NoReason),
     LineItem(Medicines, Dec(1, 0), Dec(100, 0), NoDiscount, <<>>, VAT_RATE, FALSE, NoReason, NoDec, NoReason),
     LineItem(Computers, Dec(1, 0), Dec(100, 0), NoDiscount, <<>>, VAT_RATE, TRUE, "Export", NoDec, NoReason),
     LineItem(Computers, Dec(1, 0), Dec(100, 0), NoDiscount, <<>>, VAT_RATE, TRUE, NoReason, NoDec, NoReason),
     LineItem(Computers, Dec(1, 0), Dec(100, 0), NoDiscount, <<>>, VAT_RATE, FALSE, NoReason, NoDec, "Export"),
     LineItem(Computers, Dec(10, 0), Dec(100, 0), Discount(Dec(1, 0), Dec(10, 0)), <<>>, VAT_RATE, FALSE, NoReason, NoDec, NoReason),
     LineItem(Computers, Dec(10, 0), Dec(100, 0), Discount(Dec(1, 0), NoDec), <<Dec(5, 0)>>, VAT_RATE, FALSE, NoReason, Dec(10, 0), NoReason)}

\* values assigned to the fields of an existing item
AssignedReasons == {NoReason, "Export"}
AssignedPercents == {NoDec, Dec(10, 0), Dec(101, 0)}
AssignedDiscounts == {NoDiscount, Discount(Dec(1, 0), NoDec), Discount(NoDec, Dec(10, 0))}

(***************************************************************************)
(* Inputs of the signing operations                                        *)
(***************************************************************************)
\* FIRS_PUBLIC_KEY: unset, a base64-wrapped PEM key, the same key as raw
\* PEM, and a base64-wrapped PEM block RSA.import_key rejects
EnvKeys == {NoneText, Base64Pem("K1"), Pem("K1"), Base64Pem("corrupt")}
EnvCertificates == {NoneText, Certificate("C1")}
KeyFiles == {NoKeyFile, KeyFile(Base64Pem("K2"), Certificate("C2"))}

SampleIrn == Fmt3(INV001, ZUTAX000, <<"2", "0", "2", "4", "0", "6", "1", "1">>)
SignIrns == {SampleIrn}
Timestamps == {NoTimestamp, Timestamp(0), Timestamp(1718064000), Timestamp(-1)}
SignNows == {1718064005}

\* the arguments of encrypt_for_qr
QrCertificates == {Certificate("C1"), EmptyText}
QrKeyInputs == {Pem("K1"), Base64Pem("K1"), EmptyText, Pem("corrupt")}

(***************************************************************************)
(* Inputs of the resource cache operations                                 *)
(***************************************************************************)
Threads == {ImportThread, 1, 2}

MaxSets == 2       \* most stores counted in _stats
MaxReads == 2      \* most hits and misses counted in _stats
MaxDeletes == 1    \* most deletes counted in _stats
MaxClock == 3      \* the clock runs from 0 to MaxClock

CacheKeys == {"a"}
CacheValues == {"v1"}
SetTtls == {NoTtl, 1}
UpdateTtls == {2}
ReadKeyLists == {<<"a">>, <<"b", "a">>}
SetManyLists == {<<[key |-> "a", value |-> "v2", ttl |-> 1]>>}

\* the value the n-th run of the factory returns
FactoryValues == <<"f1", "f2", "f3">>

(***************************************************************************)
(* Inputs of the invoice processor                                         *)
(***************************************************************************)
\* invoice numbers of the pattern ^[A-Z0-9\-/]+$ of Invoice.invoice_number
ProcessNumbers == {INV001, <<"A", "/", "1">>}
InvoiceInputs ==
    {InvoiceInput(v, n, b, r) : v \in BOOLEAN, n \in ProcessNumbers, b \in BOOLEAN, r \in BOOLEAN}

(***************************************************************************)
(* State machine of the IRN operations                                     *)
(***************************************************************************)
Call(op, n, s, env, d, now, res) ==
    [op |-> op, n |-> n, s |-> s, env |-> env, d |-> d, now |-> now, res |-> res]

NotParsed == [impl |-> "none", valid |-> FALSE, comp |-> ComponentsError]

\* a TaxManager call and its result, not yet handed to validate_tax_calculation
TaxCall(op, amount, hsn_code, custom_rate, res) ==
    [op |-> op, amount |-> amount, hsn_code |-> hsn_code, custom_rate |-> custom_rate,
     res |-> res, checked |-> FALSE, tax |-> NoDec, valid |-> FALSE]

NoTaxCall == TaxCall("idle", NoDec, None, NoDec, NoTaxCalculation)

\* a call of calculate_multiple_taxes, calculate_cascading_tax or
\* calculate_reverse_tax: its arguments and what it returned
StackCall(op, amount, taxes, rate, breakdown, reverse) ==
    [op |-> op, amount |-> amount, taxes |-> taxes, rate |-> rate, breakdown |-> breakdown,
     reverse |-> reverse]
NoStackCall == StackCall("idle", NoDec, <<>>, NoDec, NoTaxManagerBreakdown, NoReverseTax)
\* a read of the registry: its argument, the registry before it, and what it
\* returned
HsnRead(op, code, before, hsn, exempt, rate, reason, total) ==
    [op |-> op, code |-> code, before |-> before, hsn |-> hsn, exempt |-> exempt,
     rate |-> rate, reason |-> reason, total |-> total]
NoHsnRead == HsnRead("idle", None, EmptyHsnDatabase, NoHSNCode, FALSE, NoDec, NoReason, 0)

\* cls._hsn_database[code] = hsn_code
dict_store(db, code, hsn) == [c \in DOMAIN db \cup {code} |-> IF c = code THEN hsn ELSE db[c]]

\* cls._hsn_database.get(code)
dict_get(db, code) == IF code \in DOMAIN db THEN db[code] ELSE NoHSNCode

\* the k-th _add_hsn_code call of initialize()
add_hsn_code(db, k) == dict_store(db, DefaultCodes[k], DefaultHsnDatabase[DefaultCodes[k]])

\* the mutating thread: its operation and argument, the registry when it
\* was called, and how many default entries its initialize() has added
Mutator(pc, op, code, hsn, idx, pre) ==
    [pc |-> pc, op |-> op, code |-> code, hsn |-> hsn, idx |-> idx, pre |-> pre]
IdleMutator == Mutator("idle", "none", None, NoHSNCode, 0, EmptyHsnDatabase)

\* the looking-up thread: its argument, how many default entries its
\* initialize() has added, and what it found
Reader(pc, code, idx, hsn) == [pc |-> pc, code |-> code, idx |-> idx, hsn |-> hsn]
IdleReader == Reader("idle", None, 0, NoHSNCode)

\* the state after import: no call made, the HSN registry loaded with its
\* defaults, no invoice
Init == /\ irnCall = Call("idle", None, None, None, NoDate, NoDate, BuildError("none"))
        /\ irnParse = NotParsed
        /\ hsnDb = DefaultHsnDatabase
        /\ taxCall = NoTaxCall
        /\ inv = NoInvoice
        /\ sealedItems = <<>>
        /\ stackCall = NoStackCall
        /\ item = NoLineItem
        /\ builder = LineItemBuilder_init
        /\ hsnRead = NoHsnRead
        /\ mutator = IdleMutator
        /\ reader = IdleReader
        /\ sign = NoSigner
        /\ rc = ClassDefined
        /\ tasks = [t \in Threads |-> IdleThread]
        /\ proc = NoProcess

CreateCustomIrn ==
    /\ irnCall.op = "idle"
    /\ \E n \in InvoiceNumbers, s \in OptSids, d \in OptDates, gen \in GeneratedSids :
      \E now \in Nows(d) :
        /\ irnCall' = Call("create_custom_irn", n, s, None, d, now,
                           create_custom_irn(n, s, d, gen, now))
        /\ irnParse' = NotParsed
    /\ UNCHANGED <<hsnDb, taxCall, inv, sealedItems, stackCall, item, builder, hsnRead, mutator,
                   reader, sign, rc, tasks, proc>>

GenerateIrn ==
    /\ irnCall.op = "idle"
    /\ \E n \in InvoiceNumbers, s \in OptSids, env \in EnvSids, d \in OptDates :
      \E now \in Nows(d) :
        /\ irnCall' = Call("generate_irn", n, s, env, d, now,
                           ZutaxClient_generate_irn(n, d, s, env, now))
        /\ irnParse' = NotParsed
    /\ UNCHANGED <<hsnDb, taxCall, inv, sealedItems, stackCall, item, builder, hsnRead, mutator,
                   reader, sign, rc, tasks, proc>>

FirsGenerateIrn ==
    /\ irnCall.op = "idle"
    /\ \E n \in InvoiceNumbers, env \in OptSids, d \in OptDates, gen \in GeneratedSids :
      \E now \in Nows(d) :
        /\ irnCall' = Call("firs_generate_irn", n, None, env, d, now,
                           firs_generate_irn(n, d, env, gen, now))
        /\ irnParse' = NotParsed
    /\ UNCHANGED <<hsnDb, taxCall, inv, sealedItems, stackCall, item, builder, hsnRead, mutator,
                   reader, sign, rc, tasks, proc>>

FirsCreateCustomIrn ==
    /\ irnCall.op = "idle"
    /\ \E n \in InvoiceNumbers, s \in OptSids, d \in OptDates, gen \in GeneratedSids :
      \E now \in Nows(d) :
        /\ irnCall' = Call("firs_create_custom_irn", n, s, None, d, now,
                           firs_create_custom_irn(n, s, d, gen, now))
        /\ irnParse' = NotParsed
    /\ UNCHANGED <<hsnDb, taxCall, inv, sealedItems, stackCall, item, builder, hsnRead, mutator,
                   reader, sign, rc, tasks, proc>>

ClientGenerateIrn ==
    /\ irnCall.op = "idle"
    /\ \E n \in InvoiceNumbers, s \in OptSids, env \in EnvSids, d \in OptDates, b \in BusinessIds :
      \E now \in Nows(d) :
        /\ irnCall' = Call("client_generate_irn", n, s, env, d, now,
                           FIRSClient_generate_irn(n, d, env, s, b, now))
        /\ irnParse' = NotParsed
    /\ UNCHANGED <<hsnDb, taxCall, inv, sealedItems, stackCall, item, builder, hsnRead, mutator,
                   reader, sign, rc, tasks, proc>>

\* ZutaxClient.generate_irn(invoice) on an Invoice; d is its invoice_date
InvoiceGenerateIrn ==
    /\ irnCall.op = "idle"
    /\ \E invoice \in ClientInvoices, s \in ClientSids, env \in EnvSids, now \in NowDates :
        /\ irnCall' = Call("invoice_generate_irn", invoice.invoice_number, s, env,
                           invoice.invoice_date, now,
                           ZutaxClient_generate_irn_of(invoice, s, env, now))
        /\ irnParse' = NotParsed
    /\ UNCHANGED <<hsnDb, taxCall, inv, sealedItems, stackCall, item, builder, hsnRead, mutator,
                   reader, sign, rc, tasks, proc>>

\* a caller holds an IRN string of its own
RawIrn ==
    /\ irnCall.op = "idle"
    /\ \E raw \in RawIrns :
        /\ irnCall' = Call("raw", None, None, None, NoDate, NoDate, Built(raw, None, None))
        /\ irnParse' = NotParsed
    /\ UNCHANGED <<hsnDb, taxCall, inv, sealedItems, stackCall, item, builder, hsnRead, mutator,
                   reader, sign, rc, tasks, proc>>

\* validate_irn and extract_components on the IRN at hand
ExtractComponents ==
    /\ irnCall.res.ok
    /\ irnParse.impl = "none"
    /\ irnParse' = [impl |-> "zutax", valid |-> validate_irn(irnCall.res.irn),
                    comp |-> extract_components(irnCall.res.irn)]
    /\ UNCHANGED <<irnCall, hsnDb, taxCall, inv, sealedItems, stackCall, item, builder, hsnRead,
                   mutator, reader, sign, rc, tasks, proc>>

FirsExtractComponents ==
    /\ irnCall.res.ok
    /\ irnParse.impl = "none"
    /\ irnParse' = [impl |-> "firs", valid |-> firs_validate_irn(irnCall.res.irn),
                    comp |-> firs_extract_components(irnCall.res.irn)]
    /\ UNCHANGED <<irnCall, hsnDb, taxCall, inv, sealedItems, stackCall, item, builder, hsnRead,
                   mutator, reader, sign, rc, tasks, proc>>

IrnNext == \/ CreateCustomIrn
           \/ GenerateIrn
           \/ FirsGenerateIrn
           \/ FirsCreateCustomIrn
           \/ ClientGenerateIrn
           \/ InvoiceGenerateIrn
           \/ RawIrn
           \/ ExtractComponents
           \/ FirsExtractComponents

SpecIRN == Init /\ [][IrnNext]_vars

(***************************************************************************)
(* State machine of the tax engine                                         *)
(***************************************************************************)
\* HSNManager.add_custom_hsn_code(hsn)
AddCustomHsnCode ==
    /\ taxCall.op = "idle"
    /\ stackCall.op = "idle"
    /\ \E e \in CustomHsnCodes : hsnDb' = add_custom_hsn_code(hsnDb, e.code, e.hsn)
    /\ UNCHANGED <<irnCall, irnParse, taxCall, inv, sealedItems, stackCall, item, builder,
                   hsnRead, mutator, reader, sign, rc, tasks, proc>>

\* TaxManager.calculate_line_tax(amount, hsn_code, custom_rate)
CalculateLineTax ==
    /\ taxCall.op = "idle"
    /\ stackCall.op = "idle"
    /\ \E amount \in Amounts, h \in HsnInputs, r \in OptRates :
        /\ taxCall' = TaxCall("calculate_line_tax", amount, h, r,
                              calculate_line_tax(hsnDb, amount, h, r))
        /\ hsnDb' = IF Falsy(h) THEN hsnDb ELSE initialize(hsnDb)
    /\ UNCHANGED <<irnCall, irnParse, inv, sealedItems, stackCall, item, builder, hsnRead,
                   mutator, reader, sign, rc, tasks, proc>>

\* TaxManager.validate_tax_calculation on the result of the call, the tax
\* possibly off by a cent or two
ValidateTaxCalculation ==
    /\ taxCall.op = "calculate_line_tax"
    /\ ~taxCall.checked
    /\ \E off \in TaxOffsets :
        LET tax == DAdd(taxCall.res.tax_amount, off)
        IN taxCall' = [taxCall EXCEPT !.checked = TRUE, !.tax = tax,
                          !.valid = validate_tax_calculation(taxCall.res.base_amount, tax,
                                                             taxCall.res.rate)]
    /\ UNCHANGED <<irnCall, irnParse, hsnDb, inv, sealedItems, stackCall, item, builder,
                   hsnRead, mutator, reader, sign, rc, tasks, proc>>

\* TaxManager.calculate_multiple_taxes(amount, taxes)
CalculateMultipleTaxes ==
    /\ taxCall.op = "idle"
    /\ stackCall.op = "idle"
    /\ \E amount \in StackAmounts, taxes \in TaxLists :
        stackCall' = StackCall("calculate_multiple_taxes", amount, taxes, NoDec,
                               calculate_multiple_taxes(amount, taxes), NoReverseTax)
    /\ UNCHANGED <<irnCall, irnParse, hsnDb, taxCall, inv, sealedItems, item, builder, hsnRead,
                   mutator, reader, sign, rc, tasks, proc>>

\* TaxManager.calculate_cascading_tax(amount, taxes)
CalculateCascadingTax ==
    /\ taxCall.op = "idle"
    /\ stackCall.op = "idle"
    /\ \E amount \in StackAmounts, taxes \in TaxLists :
        stackCall' = StackCall("calculate_cascading_tax", amount, taxes, NoDec,
                               calculate_cascading_tax(amount, taxes), NoReverseTax)
    /\ UNCHANGED <<irnCall, irnParse, hsnDb, taxCall, inv, sealedItems, item, builder, hsnRead,
                   mutator, reader, sign, rc, tasks, proc>>

\* TaxManager.calculate_reverse_tax(total_amount, tax_rate)
CalculateReverseTax ==
    /\ taxCall.op = "idle"
    /\ stackCall.op = "idle"
    /\ \E total \in ReverseTotals, rate \in ReverseRates :
        stackCall' = StackCall("calculate_reverse_tax", total, <<>>, rate,
                               NoTaxManagerBreakdown, calculate_reverse_tax(total, rate))
    /\ UNCHANGED <<irnCall, irnParse, hsnDb, taxCall, inv, sealedItems, item, builder, hsnRead,
                   mutator, reader, sign, rc, tasks, proc>>

TaxNext == \/ AddCustomHsnCode
           \/ CalculateLineTax
           \/ ValidateTaxCalculation
           \/ CalculateMultipleTaxes
           \/ CalculateCascadingTax
           \/ CalculateReverseTax

(***************************************************************************)
(* State machine of the invoice                                            *)
(*                                                                         *)
(* The IRN is built from the invoice number, the service ID and the issue  *)
(* date; no operation here changes those, so the artifact is written as    *)
(* one token.  sealedItems records the line items the invoice had when     *)
(* its artifact was produced.                                              *)
(***************************************************************************)
IrnToken == "irn"

\* firs_einvoice Invoice(line_items=items)
NewInvoice ==
    /\ inv = NoInvoice
    /\ \E items \in ItemLists :
        /\ firs_Invoice(items) # NoInvoice
        /\ inv' = firs_Invoice(items)
    /\ UNCHANGED <<irnCall, irnParse, hsnDb, taxCall, sealedItems, stackCall, item, builder,
                   hsnRead, mutator, reader, sign, rc, tasks, proc>>

\* zutax Invoice(line_items=items)
NewZutaxInvoice ==
    /\ inv = NoInvoice
    /\ \E items \in ItemLists :
        /\ zutax_Invoice(items) # NoInvoice
        /\ inv' = zutax_Invoice(items)
    /\ UNCHANGED <<irnCall, irnParse, hsnDb, taxCall, sealedItems, stackCall, item, builder,
                   hsnRead, mutator, reader, sign, rc, tasks, proc>>

\* submit_invoice of either client: an invoice without IRN is given one, an
\* IRN at hand is kept
SubmitInvoice ==
    /\ inv # NoInvoice
    /\ inv' = IF inv.irn = NoArtifact THEN [inv EXCEPT !.irn = IrnToken] ELSE inv
    /\ sealedItems' = IF inv.irn = NoArtifact THEN inv.line_items ELSE sealedItems
    /\ UNCHANGED <<irnCall, irnParse, hsnDb, taxCall, stackCall, item, builder, hsnRead,
                   mutator, reader, sign, rc, tasks, proc>>

\* invoice.line_items.append(item)
AppendLineItem ==
    /\ inv # NoInvoice
    /\ Len(inv.line_items) < MaxItems
    /\ \E it \in LineItems : inv' = [inv EXCEPT !.line_items = Append(@, it)]
    /\ UNCHANGED <<irnCall, irnParse, hsnDb, taxCall, sealedItems, stackCall, item, builder,
                   hsnRead, mutator, reader, sign, rc, tasks, proc>>

\* invoice.line_items[i].quantity = q, refused unless q > 0
SetQuantity ==
    /\ inv # NoInvoice
    /\ \E i \in 1..Len(inv.line_items) :
        \E q \in {x \in Quantities : LineItem_accepted([inv.line_items[i] EXCEPT !.quantity = x])} :
            inv' = [inv EXCEPT !.line_items[i].quantity = q]
    /\ UNCHANGED <<irnCall, irnParse, hsnDb, taxCall, sealedItems, stackCall, item, builder,
                   hsnRead, mutator, reader, sign, rc, tasks, proc>>

\* invoice.subtotal = v and its like, on the zutax invoice, whose totals are
\* fields (ge=0, decimal_places=2)
AssignTotal ==
    /\ inv.impl = "zutax"
    /\ \E f \in TotalFields, v \in {x \in TotalValues : AmountOk(x)} :
        inv' = [inv EXCEPT ![f] = v]
    /\ UNCHANGED <<irnCall, irnParse, hsnDb, taxCall, sealedItems, stackCall, item, builder,
                   hsnRead, mutator, reader, sign, rc, tasks, proc>>

InvNext == \/ NewInvoice
           \/ NewZutaxInvoice
           \/ SubmitInvoice
           \/ AppendLineItem
           \/ SetQuantity
           \/ AssignTotal

SpecTax == Init /\ [][TaxNext]_vars
SpecInvoice == Init /\ [][InvNext]_vars



(***************************************************************************)
(* Line items: construction, the builder, and assignment to a field of an  *)
(* existing item (validate_assignment runs the validators of that field)   *)
(***************************************************************************)
\* LineItem(...) called directly
NewLineItem ==
    /\ item = NoLineItem
    /\ builder = LineItemBuilder_init
    /\ \E args \in LineItemArgs : item' = LineItem_new(args)
    /\ UNCHANGED <<irnCall, irnParse, hsnDb, taxCall, inv, sealedItems, stackCall, builder,
                   hsnRead, mutator, reader, sign, rc, tasks, proc>>

WithHsnCode ==
    /\ item = NoLineItem
    /\ \E h \in BuilderHsnCodes : builder' = with_hsn_code(builder, h)
    /\ UNCHANGED <<irnCall, irnParse, hsnDb, taxCall, inv, sealedItems, stackCall, item,
                   hsnRead, mutator, reader, sign, rc, tasks, proc>>

WithQuantity ==
    /\ item = NoLineItem
    /\ \E q \in BuilderQuantities : builder' = with_quantity(builder, q)
    /\ UNCHANGED <<irnCall, irnParse, hsnDb, taxCall, inv, sealedItems, stackCall, item,
                   hsnRead, mutator, reader, sign, rc, tasks, proc>>

WithUnitPrice ==
    /\ item = NoLineItem
    /\ \E p \in BuilderPrices : builder' = with_unit_price(builder, p)
    /\ UNCHANGED <<irnCall, irnParse, hsnDb, taxCall, inv, sealedItems, stackCall, item,
                   hsnRead, mutator, reader, sign, rc, tasks, proc>>

WithDiscountPercent ==
    /\ item = NoLineItem
    /\ \E p \in BuilderPercents : builder' = with_discount_percent(builder, p)
    /\ UNCHANGED <<irnCall, irnParse, hsnDb, taxCall, inv, sealedItems, stackCall, item,
                   hsnRead, mutator, reader, sign, rc, tasks, proc>>

WithDiscountAmount ==
    /\ item = NoLineItem
    /\ \E a \in BuilderAmounts : builder' = with_discount_amount(builder, a)
    /\ UNCHANGED <<irnCall, irnParse, hsnDb, taxCall, inv, sealedItems, stackCall, item,
                   hsnRead, mutator, reader, sign, rc, tasks, proc>>

AddCharge ==
    /\ item = NoLineItem
    /\ Len(builder.charges) < MaxBuilderCharges
    /\ \E a \in BuilderCharges : builder' = add_charge(builder, a)
    /\ UNCHANGED <<irnCall, irnParse, hsnDb, taxCall, inv, sealedItems, stackCall, item,
                   hsnRead, mutator, reader, sign, rc, tasks, proc>>

WithTax ==
    /\ item = NoLineItem
    /\ \E r \in BuilderRates : builder' = with_tax(builder, r)
    /\ UNCHANGED <<irnCall, irnParse, hsnDb, taxCall, inv, sealedItems, stackCall, item,
                   hsnRead, mutator, reader, sign, rc, tasks, proc>>

WithTaxExemption ==
    /\ item = NoLineItem
    /\ \E r \in BuilderReasons : builder' = with_tax_exemption(builder, r)
    /\ UNCHANGED <<irnCall, irnParse, hsnDb, taxCall, inv, sealedItems, stackCall, item,
                   hsnRead, mutator, reader, sign, rc, tasks, proc>>

\* LineItemBuilder.build(); nothing changes when it raises
Build ==
    /\ item = NoLineItem
    /\ item' = build(builder)
    /\ UNCHANGED <<irnCall, irnParse, hsnDb, taxCall, inv, sealedItems, stackCall, builder,
                   hsnRead, mutator, reader, sign, rc, tasks, proc>>

\* item.tax_exempt = v: the field has no validator of its own
AssignTaxExempt ==
    /\ item # NoLineItem
    /\ \E v \in BOOLEAN : item' = [item EXCEPT !.tax_exempt = v]
    /\ UNCHANGED <<irnCall, irnParse, hsnDb, taxCall, inv, sealedItems, stackCall, builder,
                   hsnRead, mutator, reader, sign, rc, tasks, proc>>

\* item.tax_exempt_reason = v: validate_tax_exempt_reason runs on v with the
\* item's other fields; nothing changes when it raises
AssignTaxExemptReason ==
    /\ item # NoLineItem
    /\ \E v \in AssignedReasons :
        item' = IF validate_tax_exempt_reason_raises(item.tax_exempt, v) THEN item
                ELSE [item EXCEPT !.tax_exempt_reason = v]
    /\ UNCHANGED <<irnCall, irnParse, hsnDb, taxCall, inv, sealedItems, stackCall, builder,
                   hsnRead, mutator, reader, sign, rc, tasks, proc>>

\* item.discount_percent = v
AssignDiscountPercent ==
    /\ item # NoLineItem
    /\ \E v \in AssignedPercents :
        item' = IF PercentOk(v) THEN [item EXCEPT !.discount_percent = v] ELSE item
    /\ UNCHANGED <<irnCall, irnParse, hsnDb, taxCall, inv, sealedItems, stackCall, builder,
                   hsnRead, mutator, reader, sign, rc, tasks, proc>>

\* item.discount = d, d a Discount that exists
AssignDiscount ==
    /\ item # NoLineItem
    /\ \E d \in {x \in AssignedDiscounts : Discount_accepted(x)} :
        item' = [item EXCEPT !.discount = d]
    /\ UNCHANGED <<irnCall, irnParse, hsnDb, taxCall, inv, sealedItems, stackCall, builder,
                   hsnRead, mutator, reader, sign, rc, tasks, proc>>

LineItemNext == \/ NewLineItem
                \/ WithHsnCode
                \/ WithQuantity
                \/ WithUnitPrice
                \/ WithDiscountPercent
                \/ WithDiscountAmount
                \/ AddCharge
                \/ WithTax
                \/ WithTaxExemption
                \/ Build
                \/ AssignTaxExempt
                \/ AssignTaxExemptReason
                \/ AssignDiscountPercent
                \/ AssignDiscount

SpecLineItem == Init /\ [][LineItemNext]_vars

(***************************************************************************)
(* State machine of the HSN registry, one caller                           *)
(***************************************************************************)
\* HSNManager.add_custom_hsn_code(hsn)
HsnAdd ==
    /\ hsnRead.op = "idle"
    /\ \E e \in RegistryEntries : hsnDb' = add_custom_hsn_code(hsnDb, e.code, e.hsn)
    /\ UNCHANGED <<irnCall, irnParse, taxCall, inv, sealedItems, stackCall, item, builder,
                   hsnRead, mutator, reader, sign, rc, tasks, proc>>

\* HSNManager.import_hsn_codes(codes)
HsnImport ==
    /\ hsnRead.op = "idle"
    /\ \E codes \in ImportLists : hsnDb' = import_hsn_codes(hsnDb, codes)
    /\ UNCHANGED <<irnCall, irnParse, taxCall, inv, sealedItems, stackCall, item, builder,
                   hsnRead, mutator, reader, sign, rc, tasks, proc>>

\* HSNManager.remove_hsn_code(code)
HsnRemove ==
    /\ hsnRead.op = "idle"
    /\ \E code \in RemovableCodes(hsnDb) : hsnDb' = remove_hsn_code(hsnDb, code)
    /\ UNCHANGED <<irnCall, irnParse, taxCall, inv, sealedItems, stackCall, item, builder,
                   hsnRead, mutator, reader, sign, rc, tasks, proc>>

\* HSNManager.clear_custom_hsn_codes()
HsnClear ==
    /\ hsnRead.op = "idle"
    /\ hsnDb' = clear_custom_hsn_codes(hsnDb)
    /\ UNCHANGED <<irnCall, irnParse, taxCall, inv, sealedItems, stackCall, item, builder,
                   hsnRead, mutator, reader, sign, rc, tasks, proc>>

\* HSNManager.get_hsn_code(code)
HsnLookup ==
    /\ hsnRead.op = "idle"
    /\ \E code \in LookupCodes :
        hsnRead' = HsnRead("get_hsn_code", code, hsnDb, get_hsn_code(hsnDb, code), FALSE,
                           NoDec, NoReason, 0)
    /\ hsnDb' = initialize(hsnDb)
    /\ UNCHANGED <<irnCall, irnParse, taxCall, inv, sealedItems, stackCall, item, builder,
                   mutator, reader, sign, rc, tasks, proc>>

\* HSNManager.is_exempt(hsn_code)
HsnIsExempt ==
    /\ hsnRead.op = "idle"
    /\ \E code \in LookupCodes :
        hsnRead' = HsnRead("is_exempt", code, hsnDb, NoHSNCode, is_exempt(hsnDb, code),
                           NoDec, NoReason, 0)
    /\ hsnDb' = initialize(hsnDb)
    /\ UNCHANGED <<irnCall, irnParse, taxCall, inv, sealedItems, stackCall, item, builder,
                   mutator, reader, sign, rc, tasks, proc>>

\* HSNManager.get_tax_rate(hsn_code)
HsnGetTaxRate ==
    /\ hsnRead.op = "idle"
    /\ \E code \in LookupCodes :
        hsnRead' = HsnRead("get_tax_rate", code, hsnDb, NoHSNCode, FALSE,
                           get_tax_rate(hsnDb, code), NoReason, 0)
    /\ hsnDb' = initialize(hsnDb)
    /\ UNCHANGED <<irnCall, irnParse, taxCall, inv, sealedItems, stackCall, item, builder,
                   mutator, reader, sign, rc, tasks, proc>>

\* HSNManager.get_exemption_reason(hsn_code)
HsnGetExemptionReason ==
    /\ hsnRead.op = "idle"
    /\ \E code \in LookupCodes :
        hsnRead' = HsnRead("get_exemption_reason", code, hsnDb, NoHSNCode, FALSE, NoDec,
                           get_exemption_reason(hsnDb, code), 0)
    /\ hsnDb' = initialize(hsnDb)
    /\ UNCHANGED <<irnCall, irnParse, taxCall, inv, sealedItems, stackCall, item, builder,
                   mutator, reader, sign, rc, tasks, proc>>

\* HSNManager.export_hsn_codes()
HsnExport ==
    /\ hsnRead.op = "idle"
    /\ hsnRead' = HsnRead("export_hsn_codes", None, hsnDb, NoHSNCode, FALSE, NoDec, NoReason,
                          Cardinality(export_hsn_codes(hsnDb)))
    /\ hsnDb' = initialize(hsnDb)
    /\ UNCHANGED <<irnCall, irnParse, taxCall, inv, sealedItems, stackCall, item, builder,
                   mutator, reader, sign, rc, tasks, proc>>

\* HSNManager.get_statistics()
HsnStatistics ==
    /\ hsnRead.op = "idle"
    /\ hsnRead' = HsnRead("get_statistics", None, hsnDb, NoHSNCode, FALSE, NoDec, NoReason,
                          get_statistics(hsnDb).total)
    /\ hsnDb' = initialize(hsnDb)
    /\ UNCHANGED <<irnCall, irnParse, taxCall, inv, sealedItems, stackCall, item, builder,
                   mutator, reader, sign, rc, tasks, proc>>

\* the caller is done with what the read returned
HsnReturn ==
    /\ hsnRead.op # "idle"
    /\ hsnRead' = NoHsnRead
    /\ UNCHANGED <<irnCall, irnParse, hsnDb, taxCall, inv, sealedItems, stackCall, item,
                   builder, mutator, reader, sign, rc, tasks, proc>>

HsnNext == \/ HsnAdd
           \/ HsnImport
           \/ HsnRemove
           \/ HsnClear
           \/ HsnLookup
           \/ HsnIsExempt
           \/ HsnGetTaxRate
           \/ HsnGetExemptionReason
           \/ HsnExport
           \/ HsnStatistics
           \/ HsnReturn

SpecHsn == Init /\ [][HsnNext]_vars

(***************************************************************************)
(* State machine of the HSN registry under two threads                     *)
(*                                                                         *)
(* One thread runs a mutation (add_custom_hsn_code, remove_hsn_code or     *)
(* clear_custom_hsn_codes), the other a lookup (get_hsn_code).  HSNManager *)
(* takes no lock, so the threads interleave between statements; a single   *)
(* dict operation (clear, store, pop, get) is one step.                    *)
(***************************************************************************)
\* the codes the mutating thread removes and the codes the other looks up
ThreadRemovals == {Computers, Custom1}
ThreadLookups == {Computers, Medicines, Servers, DefaultCodes[Len(DefaultCodes)], Custom1}

\* a thread calls add_custom_hsn_code(hsn); it raises on a bad code
MutatorCallAdd ==
    /\ mutator.pc = "idle"
    /\ \E e \in RegistryEntries :
        mutator' = Mutator(IF validate_hsn_code(e.code) THEN "store" ELSE "done",
                           "add_custom_hsn_code", e.code, e.hsn, 0, hsnDb)
    /\ UNCHANGED <<irnCall, irnParse, hsnDb, taxCall, inv, sealedItems, stackCall, item,
                   builder, hsnRead, reader, sign, rc, tasks, proc>>

\* a thread calls remove_hsn_code(code)
MutatorCallRemove ==
    /\ mutator.pc = "idle"
    /\ \E code \in ThreadRemovals :
        mutator' = Mutator("pop", "remove_hsn_code", code, NoHSNCode, 0, hsnDb)
    /\ UNCHANGED <<irnCall, irnParse, hsnDb, taxCall, inv, sealedItems, stackCall, item,
                   builder, hsnRead, reader, sign, rc, tasks, proc>>

\* a thread calls clear_custom_hsn_codes()
MutatorCallClear ==
    /\ mutator.pc = "idle"
    /\ mutator' = Mutator("clear", "clear_custom_hsn_codes", None, NoHSNCode, 0, hsnDb)
    /\ UNCHANGED <<irnCall, irnParse, hsnDb, taxCall, inv, sealedItems, stackCall, item,
                   builder, hsnRead, reader, sign, rc, tasks, proc>>

\* cls._hsn_database[hsn.code] = hsn
MutatorStore ==
    /\ mutator.pc = "store"
    /\ hsnDb' = dict_store(hsnDb, mutator.code, mutator.hsn)
    /\ mutator' = [mutator EXCEPT !.pc = "done"]
    /\ UNCHANGED <<irnCall, irnParse, taxCall, inv, sealedItems, stackCall, item, builder,
                   hsnRead, reader, sign, rc, tasks, proc>>

\* cls._hsn_database.pop(code, None)
MutatorPop ==
    /\ mutator.pc = "pop"
    /\ hsnDb' = remove_hsn_code(hsnDb, mutator.code)
    /\ mutator' = [mutator EXCEPT !.pc = "done"]
    /\ UNCHANGED <<irnCall, irnParse, taxCall, inv, sealedItems, stackCall, item, builder,
                   hsnRead, reader, sign, rc, tasks, proc>>

\* cls._hsn_database.clear()
MutatorClear ==
    /\ mutator.pc = "clear"
    /\ hsnDb' = EmptyHsnDatabase
    /\ mutator' = [mutator EXCEPT !.pc = "init_check"]
    /\ UNCHANGED <<irnCall, irnParse, taxCall, inv, sealedItems, stackCall, item, builder,
                   hsnRead, reader, sign, rc, tasks, proc>>

\* initialize(): if cls._hsn_database: return
MutatorInitCheck ==
    /\ mutator.pc = "init_check"
    /\ mutator' = [mutator EXCEPT !.pc = IF DOMAIN hsnDb # {} THEN "done" ELSE "load"]
    /\ UNCHANGED <<irnCall, irnParse, hsnDb, taxCall, inv, sealedItems, stackCall, item,
                   builder, hsnRead, reader, sign, rc, tasks, proc>>

\* initialize(): the next _add_hsn_code call
MutatorLoad ==
    /\ mutator.pc = "load"
    /\ hsnDb' = add_hsn_code(hsnDb, mutator.idx + 1)
    /\ mutator' = [mutator EXCEPT !.idx = @ + 1,
                                  !.pc = IF mutator.idx + 1 = Len(DefaultCodes) THEN "done"
                                         ELSE "load"]
    /\ UNCHANGED <<irnCall, irnParse, taxCall, inv, sealedItems, stackCall, item, builder,
                   hsnRead, reader, sign, rc, tasks, proc>>

\* a thread calls get_hsn_code(code)
ReaderCall ==
    /\ reader.pc = "idle"
    /\ \E code \in ThreadLookups : reader' = Reader("init_check", code, 0, NoHSNCode)
    /\ UNCHANGED <<irnCall, irnParse, hsnDb, taxCall, inv, sealedItems, stackCall, item,
                   builder, hsnRead, mutator, sign, rc, tasks, proc>>

\* initialize(): if cls._hsn_database: return
ReaderInitCheck ==
    /\ reader.pc = "init_check"
    /\ reader' = [reader EXCEPT !.pc = IF DOMAIN hsnDb # {} THEN "get" ELSE "load"]
    /\ UNCHANGED <<irnCall, irnParse, hsnDb, taxCall, inv, sealedItems, stackCall, item,
                   builder, hsnRead, mutator, sign, rc, tasks, proc>>

\* initialize(): the next _add_hsn_code call
ReaderLoad ==
    /\ reader.pc = "load"
    /\ hsnDb' = add_hsn_code(hsnDb, reader.idx + 1)
    /\ reader' = [reader EXCEPT !.idx = @ + 1,
                                !.pc = IF reader.idx + 1 = Len(DefaultCodes) THEN "get"
                                       ELSE "load"]
    /\ UNCHANGED <<irnCall, irnParse, taxCall, inv, sealedItems, stackCall, item, builder,
                   hsnRead, mutator, sign, rc, tasks, proc>>

\* hsn = cls._hsn_database.get(code)
ReaderGet ==
    /\ reader.pc = "get"
    /\ LET hsn == dict_get(hsnDb, reader.code)
       IN reader' = [reader EXCEPT !.hsn = hsn,
                        !.pc = IF hsn = NoHSNCode /\ Len(reader.code) >= ChapterLen
                               THEN "get_chapter" ELSE "done"]
    /\ UNCHANGED <<irnCall, irnParse, hsnDb, taxCall, inv, sealedItems, stackCall, item,
                   builder, hsnRead, mutator, sign, rc, tasks, proc>>

\* hsn = cls._hsn_database.get(code[:4])
ReaderGetChapter ==
    /\ reader.pc = "get_chapter"
    /\ reader' = [reader EXCEPT !.hsn = dict_get(hsnDb, Prefix(reader.code, ChapterLen)),
                                !.pc = "done"]
    /\ UNCHANGED <<irnCall, irnParse, hsnDb, taxCall, inv, sealedItems, stackCall, item,
                   builder, hsnRead, mutator, sign, rc, tasks, proc>>

ThreadsNext == \/ MutatorCallAdd
               \/ MutatorCallRemove
               \/ MutatorCallClear
               \/ MutatorStore
               \/ MutatorPop
               \/ MutatorClear
               \/ MutatorInitCheck
               \/ MutatorLoad
               \/ ReaderCall
               \/ ReaderInitCheck
               \/ ReaderLoad
               \/ ReaderGet
               \/ ReaderGetChapter

SpecHsnThreads == Init /\ [][ThreadsNext]_vars

(***************************************************************************)
(* State machine of the signing operations                                 *)
(***************************************************************************)
\* FIRSSigner(): the environment and the key file as the process finds them
NewSigner ==
    /\ sign.pc = "idle"
    /\ \E env_key \in EnvKeys, env_cert \in EnvCertificates, key_file \in KeyFiles :
        LET keys == load_firs_keys(env_key, env_cert, key_file)
        IN sign' = [NoSigner EXCEPT !.firs_public_key_pem = keys.firs_public_key_pem,
                                    !.firs_certificate = keys.firs_certificate,
                                    !.env_key = env_key, !.env_certificate = env_cert]
    /\ UNCHANGED <<irnCall, irnParse, hsnDb, taxCall, inv, sealedItems, stackCall, item,
                   builder, hsnRead, mutator, reader, rc, tasks, proc>>

\* signer.sign_irn(irn, timestamp) is called
SignIrnCall ==
    /\ sign.pc = "idle"
    /\ \E irn \in SignIrns, timestamp \in Timestamps, now \in SignNows, fits \in BOOLEAN :
        sign' = [signer_idle(sign) EXCEPT !.pc = "unsigned", !.op = "sign_irn", !.irn = irn,
                                          !.timestamp = timestamp, !.now = now, !.fits = fits,
                                          !.trace = <<"Unsigned">>]
    /\ UNCHANGED <<irnCall, irnParse, hsnDb, taxCall, inv, sealedItems, stackCall, item,
                   builder, hsnRead, mutator, reader, rc, tasks, proc>>

\* sign_irn: ts, irn_with_timestamp and the payload
SignBuildPayload ==
    /\ sign.pc = "unsigned" /\ sign.op = "sign_irn"
    /\ LET ts == sign_ts(sign.timestamp, sign.now)
       IN sign' = [sign EXCEPT !.pc = "payload_built", !.ts = ts,
                               !.payload = FIRSSigningPayload(irn_with_timestamp(sign.irn, ts),
                                                              sign.firs_certificate),
                               !.trace = Append(sign.trace, "PayloadBuilt")]
    /\ UNCHANGED <<irnCall, irnParse, hsnDb, taxCall, inv, sealedItems, stackCall, item,
                   builder, hsnRead, mutator, reader, rc, tasks, proc>>

\* _encrypt_payload: the test of the key and the certificate
SignCheckConfigured ==
    /\ sign.pc = "payload_built" /\ sign.op = "sign_irn"
    /\ sign' = IF ~is_configured(sign) THEN sign_raise(sign, "keys must be loaded")
               ELSE [sign EXCEPT !.pc = "configured", !.key = sign.firs_public_key_pem]
    /\ UNCHANGED <<irnCall, irnParse, hsnDb, taxCall, inv, sealedItems, stackCall, item,
                   builder, hsnRead, mutator, reader, rc, tasks, proc>>

\* _encrypt_payload: RSA.import_key
SignImportKey ==
    /\ sign.pc = "configured" /\ sign.op = "sign_irn"
    /\ sign' = import_key_step(sign)
    /\ UNCHANGED <<irnCall, irnParse, hsnDb, taxCall, inv, sealedItems, stackCall, item,
                   builder, hsnRead, mutator, reader, rc, tasks, proc>>

\* _encrypt_payload: cipher.encrypt and base64
SignEncrypt ==
    /\ sign.pc = "key_imported" /\ sign.op = "sign_irn"
    /\ sign' = encrypt_step(sign)
    /\ UNCHANGED <<irnCall, irnParse, hsnDb, taxCall, inv, sealedItems, stackCall, item,
                   builder, hsnRead, mutator, reader, rc, tasks, proc>>

\* sign_irn returns its FIRSSigningResult
SignReturn ==
    /\ sign.pc = "encrypted" /\ sign.op = "sign_irn"
    /\ sign' = [sign EXCEPT !.pc = "done", !.trace = Append(sign.trace, "Done"),
                            !.result = FIRSSigningResult(sign.cipher, sign.ts, sign.payload.irn)]
    /\ UNCHANGED <<irnCall, irnParse, hsnDb, taxCall, inv, sealedItems, stackCall, item,
                   builder, hsnRead, mutator, reader, rc, tasks, proc>>

\* FIRSSigner.encrypt_for_qr(irn, certificate, public_key_input) is called
QrCall ==
    /\ sign.pc = "idle"
    /\ \E irn \in SignIrns, certificate \in QrCertificates, key \in QrKeyInputs,
          now \in SignNows, fits \in BOOLEAN :
        sign' = [signer_idle(sign) EXCEPT !.pc = "unsigned", !.op = "encrypt_for_qr",
                                          !.irn = irn, !.certificate = certificate,
                                          !.public_key_input = key, !.now = now, !.fits = fits,
                                          !.trace = <<"Unsigned">>]
    /\ UNCHANGED <<irnCall, irnParse, hsnDb, taxCall, inv, sealedItems, stackCall, item,
                   builder, hsnRead, mutator, reader, rc, tasks, proc>>

\* encrypt_for_qr: timestamp, irn_with_timestamp and payload_reduced
QrBuildPayload ==
    /\ sign.pc = "unsigned" /\ sign.op = "encrypt_for_qr"
    /\ sign' = [sign EXCEPT !.pc = "payload_built", !.ts = sign.now,
                            !.payload = [irn |-> irn_with_timestamp(sign.irn, sign.now),
                                         certificate |-> sign.certificate],
                            !.trace = Append(sign.trace, "PayloadBuilt")]
    /\ UNCHANGED <<irnCall, irnParse, hsnDb, taxCall, inv, sealedItems, stackCall, item,
                   builder, hsnRead, mutator, reader, rc, tasks, proc>>

\* encrypt_for_qr: the public key from its raw or base64-wrapped form
QrDecodeKey ==
    /\ sign.pc = "payload_built" /\ sign.op = "encrypt_for_qr"
    /\ LET decoded == decode_key_input(sign.public_key_input)
       IN sign' = IF decoded.ok THEN [sign EXCEPT !.pc = "configured", !.key = decoded.text]
                  ELSE sign_raise(sign, "Failed to encrypt for QR code")
    /\ UNCHANGED <<irnCall, irnParse, hsnDb, taxCall, inv, sealedItems, stackCall, item,
                   builder, hsnRead, mutator, reader, rc, tasks, proc>>

\* encrypt_for_qr: RSA.import_key
QrImportKey ==
    /\ sign.pc = "configured" /\ sign.op = "encrypt_for_qr"
    /\ sign' = import_key_step(sign)
    /\ UNCHANGED <<irnCall, irnParse, hsnDb, taxCall, inv, sealedItems, stackCall, item,
                   builder, hsnRead, mutator, reader, rc, tasks, proc>>

\* encrypt_for_qr: cipher.encrypt and base64
QrEncrypt ==
    /\ sign.pc = "key_imported" /\ sign.op = "encrypt_for_qr"
    /\ sign' = encrypt_step(sign)
    /\ UNCHANGED <<irnCall, irnParse, hsnDb, taxCall, inv, sealedItems, stackCall, item,
                   builder, hsnRead, mutator, reader, rc, tasks, proc>>

\* encrypt_for_qr returns the base64 text
QrReturn ==
    /\ sign.pc = "encrypted" /\ sign.op = "encrypt_for_qr"
    /\ sign' = [sign EXCEPT !.pc = "done", !.trace = Append(sign.trace, "Done"),
                            !.result = FIRSSigningResult(sign.cipher, sign.ts, sign.payload.irn)]
    /\ UNCHANGED <<irnCall, irnParse, hsnDb, taxCall, inv, sealedItems, stackCall, item,
                   builder, hsnRead, mutator, reader, rc, tasks, proc>>

\* the caller has the result or the exception of the operation
SignFinish ==
    /\ sign.pc \in {"done", "failed"}
    /\ sign' = signer_idle(sign)
    /\ UNCHANGED <<irnCall, irnParse, hsnDb, taxCall, inv, sealedItems, stackCall, item,
                   builder, hsnRead, mutator, reader, rc, tasks, proc>>

SignNext == \/ NewSigner
            \/ SignIrnCall
            \/ SignBuildPayload
            \/ SignCheckConfigured
            \/ SignImportKey
            \/ SignEncrypt
            \/ SignReturn
            \/ QrCall
            \/ QrBuildPayload
            \/ QrDecodeKey
            \/ QrImportKey
            \/ QrEncrypt
            \/ QrReturn
            \/ SignFinish

SpecSign == Init /\ [][SignNext]_vars

(***************************************************************************)
(* State machine of the resource cache: construction by threads, the       *)
(* operations of a caller, get_or_set by concurrent callers                *)
(***************************************************************************)
\* the instance with the bookkeeping after an operation that stored the keys
\* `set` and returned the instance c
after_op(c, set) ==
    [c EXCEPT !.stored = (@ \cup set) \cap DOMAIN c._cache, !.lapsed = @ \ set]

\* a thread calls ResourceCache()
ConsCall ==
    \E t \in Threads :
        /\ tasks[t].pc \in {"idle", "ready"}
        /\ may_construct(rc, t)
        /\ tasks' = [tasks EXCEPT ![t] = Thread("new_check", "", NoValue, NoValue)]
        /\ UNCHANGED <<irnCall, irnParse, hsnDb, taxCall, inv, sealedItems, stackCall, item,
                       builder, hsnRead, mutator, reader, sign, rc, proc>>

\* __new__: if cls._instance is None
ConsNewCheck ==
    \E t \in Threads :
        /\ tasks[t].pc = "new_check"
        /\ tasks' = [tasks EXCEPT ![t].pc = IF ~rc.instance THEN "new_lock" ELSE "init_check"]
        /\ UNCHANGED <<irnCall, irnParse, hsnDb, taxCall, inv, sealedItems, stackCall, item,
                       builder, hsnRead, mutator, reader, sign, rc, proc>>

\* __new__: with cls._lock
ConsNewLock ==
    \E t \in Threads :
        /\ tasks[t].pc = "new_lock"
        /\ rc.class_lock = NoThread
        /\ rc' = [rc EXCEPT !.class_lock = t]
        /\ tasks' = [tasks EXCEPT ![t].pc = "new_locked"]
        /\ UNCHANGED <<irnCall, irnParse, hsnDb, taxCall, inv, sealedItems, stackCall, item,
                       builder, hsnRead, mutator, reader, sign, proc>>

\* __new__, under the lock: if cls._instance is None:
\* cls._instance = super().__new__(cls)
ConsNewCreate ==
    \E t \in Threads :
        /\ tasks[t].pc = "new_locked"
        /\ IF ~rc.instance
           THEN /\ rc' = [rc EXCEPT !.instance = TRUE, !.instances = @ + 1]
                /\ tasks' = [tasks EXCEPT ![t].pc = "new_mark"]
           ELSE /\ rc' = [rc EXCEPT !.class_lock = NoThread]
                /\ tasks' = [tasks EXCEPT ![t].pc = "init_check"]
        /\ UNCHANGED <<irnCall, irnParse, hsnDb, taxCall, inv, sealedItems, stackCall, item,
                       builder, hsnRead, mutator, reader, sign, proc>>

\* __new__, under the lock: cls._instance._initialized = False
ConsNewMark ==
    \E t \in Threads :
        /\ tasks[t].pc = "new_mark"
        /\ rc' = [rc EXCEPT !.initialized = "False", !.class_lock = NoThread]
        /\ tasks' = [tasks EXCEPT ![t].pc = "init_check"]
        /\ UNCHANGED <<irnCall, irnParse, hsnDb, taxCall, inv, sealedItems, stackCall, item,
                       builder, hsnRead, mutator, reader, sign, proc>>

\* __init__: if self._initialized: return (AttributeError while the
\* attribute is not set)
ConsInitCheck ==
    \E t \in Threads :
        /\ tasks[t].pc = "init_check"
        /\ tasks' = [tasks EXCEPT ![t].pc = CASE rc.initialized = "True" -> "ready"
                                              [] rc.initialized = "False" -> "init_body"
                                              [] OTHER -> "error"]
        /\ UNCHANGED <<irnCall, irnParse, hsnDb, taxCall, inv, sealedItems, stackCall, item,
                       builder, hsnRead, mutator, reader, sign, rc, proc>>

\* __init__: config, default_ttl and self._cache = {}
ConsInitCache ==
    \E t \in Threads :
        /\ tasks[t].pc = "init_body"
        /\ rc' = [rc EXCEPT !.default_ttl = DefaultTtl, !._cache = NoEntries, !.inits = @ + 1]
        /\ tasks' = [tasks EXCEPT ![t].pc = "init_stats"]
        /\ UNCHANGED <<irnCall, irnParse, hsnDb, taxCall, inv, sealedItems, stackCall, item,
                       builder, hsnRead, mutator, reader, sign, proc>>

\* __init__: self._stats = {...}
ConsInitStats ==
    \E t \in Threads :
        /\ tasks[t].pc = "init_stats"
        /\ rc' = [rc EXCEPT !._stats = NoStats]
        /\ tasks' = [tasks EXCEPT ![t].pc = "init_done"]
        /\ UNCHANGED <<irnCall, irnParse, hsnDb, taxCall, inv, sealedItems, stackCall, item,
                       builder, hsnRead, mutator, reader, sign, proc>>

\* __init__: self._lock = RLock(); self._initialized = True.  The
\* construction of the importing thread is the last statement of the module.
ConsInitDone ==
    \E t \in Threads :
        /\ tasks[t].pc = "init_done"
        /\ rc' = [rc EXCEPT !.initialized = "True",
                            !.imported = @ \/ t = ImportThread]
        /\ tasks' = [tasks EXCEPT ![t].pc = "ready"]
        /\ UNCHANGED <<irnCall, irnParse, hsnDb, taxCall, inv, sealedItems, stackCall, item,
                       builder, hsnRead, mutator, reader, sign, proc>>

\* cache.set(key, value, ttl)
CacheSet ==
    \E t \in Threads, key \in CacheKeys, value \in CacheValues, ttl \in SetTtls :
        /\ tasks[t].pc = "ready"
        /\ rc._stats.sets < MaxSets
        /\ rc' = after_op(ResourceCache_set(rc, key, value, ttl, rc.now).c, {key})
        /\ UNCHANGED <<irnCall, irnParse, hsnDb, taxCall, inv, sealedItems, stackCall, item,
                       builder, hsnRead, mutator, reader, sign, tasks, proc>>

\* cache.set_many(entries)
CacheSetMany ==
    \E entries \in SetManyLists :
        /\ tasks[ImportThread].pc = "ready"
        /\ rc._stats.sets + Len(entries) <= MaxSets
        /\ rc' = after_op(ResourceCache_set_many(rc, entries, rc.now).c,
                          {entries[i].key : i \in 1..Len(entries)})
        /\ UNCHANGED <<irnCall, irnParse, hsnDb, taxCall, inv, sealedItems, stackCall, item,
                       builder, hsnRead, mutator, reader, sign, tasks, proc>>

\* cache.get(key)
CacheGet ==
    \E key \in CacheKeys :
        /\ tasks[ImportThread].pc = "ready"
        /\ rc._stats.hits + rc._stats.misses < MaxReads
        /\ LET r == ResourceCache_get(rc, key, rc.now)
           IN rc' = [after_op(r.c, {}) EXCEPT
                        !.last = Read("get", IF r.value # NoValue THEN {key} ELSE {}, rc.lapsed)]
        /\ UNCHANGED <<irnCall, irnParse, hsnDb, taxCall, inv, sealedItems, stackCall, item,
                       builder, hsnRead, mutator, reader, sign, tasks, proc>>

\* cache.has(key)
CacheHas ==
    \E key \in CacheKeys :
        /\ tasks[ImportThread].pc = "ready"
        /\ LET r == ResourceCache_has(rc, key, rc.now)
           IN rc' = [after_op(r.c, {}) EXCEPT
                        !.last = Read("has", IF r.value THEN {key} ELSE {}, rc.lapsed)]
        /\ UNCHANGED <<irnCall, irnParse, hsnDb, taxCall, inv, sealedItems, stackCall, item,
                       builder, hsnRead, mutator, reader, sign, tasks, proc>>

\* cache.get_many(keys)
CacheGetMany ==
    \E keys \in ReadKeyLists :
        /\ tasks[ImportThread].pc = "ready"
        /\ rc._stats.hits + rc._stats.misses + Len(keys) <= MaxReads
        /\ LET r == ResourceCache_get_many(rc, keys, rc.now)
           IN rc' = [after_op(r.c, {}) EXCEPT !.last = Read("get_many", DOMAIN r.value, rc.lapsed)]
        /\ UNCHANGED <<irnCall, irnParse, hsnDb, taxCall, inv, sealedItems, stackCall, item,
                       builder, hsnRead, mutator, reader, sign, tasks, proc>>

\* cache.update_ttl(key, ttl)
CacheUpdateTtl ==
    \E key \in CacheKeys, ttl \in UpdateTtls :
        /\ tasks[ImportThread].pc = "ready"
        /\ rc' = after_op(ResourceCache_update_ttl(rc, key, ttl, rc.now).c, {})
        /\ UNCHANGED <<irnCall, irnParse, hsnDb, taxCall, inv, sealedItems, stackCall, item,
                       builder, hsnRead, mutator, reader, sign, tasks, proc>>

\* cache.delete(key)
CacheDelete ==
    \E key \in CacheKeys :
        /\ tasks[ImportThread].pc = "ready"
        /\ rc._stats.deletes < MaxDeletes
        /\ rc' = after_op(ResourceCache_delete(rc, key).c, {})
        /\ UNCHANGED <<irnCall, irnParse, hsnDb, taxCall, inv, sealedItems, stackCall, item,
                       builder, hsnRead, mutator, reader, sign, tasks, proc>>

\* cache.clear()
CacheClear ==
    /\ tasks[ImportThread].pc = "ready"
    /\ rc' = after_op(ResourceCache_clear(rc).c, {})
    /\ UNCHANGED <<irnCall, irnParse, hsnDb, taxCall, inv, sealedItems, stackCall, item,
                   builder, hsnRead, mutator, reader, sign, tasks, proc>>

\* a second passes
Tick ==
    /\ rc.now < MaxClock
    /\ rc' = [rc EXCEPT !.now = @ + 1, !.lapsed = @ \cup expired_keys(rc._cache, rc.now + 1)]
    /\ UNCHANGED <<irnCall, irnParse, hsnDb, taxCall, inv, sealedItems, stackCall, item,
                   builder, hsnRead, mutator, reader, sign, tasks, proc>>

\* get_or_set(key, factory, ttl) is called
GetOrSetCall ==
    \E t \in Threads, key \in CacheKeys :
        /\ tasks[t].pc = "ready"
        /\ rc._stats.hits + rc._stats.misses
              + Cardinality({u \in Threads : tasks[u].pc = "gos_get"}) < MaxReads
        /\ tasks' = [tasks EXCEPT ![t] = Thread("gos_get", key, NoValue, NoValue)]
        /\ UNCHANGED <<irnCall, irnParse, hsnDb, taxCall, inv, sealedItems, stackCall, item,
                       builder, hsnRead, mutator, reader, sign, rc, proc>>

\* get_or_set: cached_value = self.get(key), returned if it is not None
GetOrSetGet ==
    \E t \in Threads :
        /\ tasks[t].pc = "gos_get"
        /\ LET r == ResourceCache_get(rc, tasks[t].key, rc.now)
           IN /\ rc' = after_op(r.c, {})
              /\ tasks' = [tasks EXCEPT ![t].pc = IF r.value # NoValue THEN "gos_done"
                                                  ELSE "gos_factory",
                                        ![t].ret = r.value]
        /\ UNCHANGED <<irnCall, irnParse, hsnDb, taxCall, inv, sealedItems, stackCall, item,
                       builder, hsnRead, mutator, reader, sign, proc>>

\* get_or_set: fresh_value = await factory()
GetOrSetFactory ==
    \E t \in Threads :
        /\ tasks[t].pc = "gos_factory"
        /\ rc' = [rc EXCEPT !.factory_calls = @ + 1]
        /\ tasks' = [tasks EXCEPT ![t].pc = "gos_set",
                                  ![t].value = FactoryValues[rc.factory_calls + 1]]
        /\ UNCHANGED <<irnCall, irnParse, hsnDb, taxCall, inv, sealedItems, stackCall, item,
                       builder, hsnRead, mutator, reader, sign, proc>>

\* get_or_set: self.set(key, fresh_value, ttl); return fresh_value
GetOrSetStore ==
    \E t \in Threads :
        /\ tasks[t].pc = "gos_set"
        /\ rc' = after_op(ResourceCache_set(rc, tasks[t].key, tasks[t].value, NoTtl, rc.now).c,
                          {tasks[t].key})
        /\ tasks' = [tasks EXCEPT ![t].pc = "gos_done", ![t].ret = tasks[t].value]
        /\ UNCHANGED <<irnCall, irnParse, hsnDb, taxCall, inv, sealedItems, stackCall, item,
                       builder, hsnRead, mutator, reader, sign, proc>>

\* the caller of get_or_set has its value
GetOrSetReturn ==
    \E t \in Threads :
        /\ tasks[t].pc = "gos_done"
        /\ \A u \in Threads : tasks[u].pc \notin {"gos_get", "gos_factory", "gos_set"}
        /\ tasks' = [tasks EXCEPT ![t] = Thread("ready", "", NoValue, NoValue)]
        /\ UNCHANGED <<irnCall, irnParse, hsnDb, taxCall, inv, sealedItems, stackCall, item,
                       builder, hsnRead, mutator, reader, sign, rc, proc>>

ConsNext == \/ ConsCall
            \/ ConsNewCheck
            \/ ConsNewLock
            \/ ConsNewCreate
            \/ ConsNewMark
            \/ ConsInitCheck
            \/ ConsInitCache
            \/ ConsInitStats
            \/ ConsInitDone

CacheThreadsNext == \/ ConsNext
                    \/ CacheSet

CacheNext == \/ ConsNext
             \/ CacheSet
             \/ CacheSetMany
             \/ CacheGet
             \/ CacheHas
             \/ CacheGetMany
             \/ CacheUpdateTtl
             \/ CacheDelete
             \/ CacheClear
             \/ Tick

CacheTasksNext == \/ ConsNext
                  \/ GetOrSetCall
                  \/ GetOrSetGet
                  \/ GetOrSetFactory
                  \/ GetOrSetStore
                  \/ GetOrSetReturn

SpecCacheThreads == Init /\ [][CacheThreadsNext]_vars
SpecCache == Init /\ [][CacheNext]_vars
SpecCacheTasks == Init /\ [][CacheTasksNext]_vars

(***************************************************************************)
(* State machine of the invoice processor                                  *)
(***************************************************************************)
\* InvoiceProcessor.process_invoice(invoice_input) is called
ProcCall ==
    /\ proc.pc = "idle"
    /\ \E input \in InvoiceInputs, env_sid \in EnvSids, gen \in GeneratedSids,
          now \in NowDates, configured \in BOOLEAN :
          proc' = [NoProcess EXCEPT !.pc = "input_validation", !.input = input,
                                    !.env_sid = env_sid, !.gen = gen, !.now = now,
                                    !.configured = configured]
    /\ UNCHANGED <<irnCall, irnParse, hsnDb, taxCall, inv, sealedItems, stackCall, item,
                   builder, hsnRead, mutator, reader, sign, rc, tasks>>

\* 1. validate_invoice_input; its errors are turned into ValidationError
\* models for the failure result
ProcValidateInput ==
    /\ proc.pc = "input_validation"
    /\ LET p == begin_step(proc, "input_validation")
           error == ValidationError(validation_error_field, "Validation error",
                                    "VALIDATION_ERROR")
       IN proc' = IF proc.input.valid THEN [p EXCEPT !.pc = "build"]
                  ELSE IF error.ok THEN to_return(p, failure(p, <<error.value>>))
                  ELSE to_except(p, error)
    /\ UNCHANGED <<irnCall, irnParse, hsnDb, taxCall, inv, sealedItems, stackCall, item,
                   builder, hsnRead, mutator, reader, sign, rc, tasks>>

\* 2. builder = cls._create_invoice_builder(...); invoice = builder.build()
ProcBuild ==
    /\ proc.pc = "build"
    /\ LET p == begin_step(proc, "build")
       IN proc' = IF proc.input.buildable
                  THEN [p EXCEPT !.pc = "final_validation",
                                 !.invoice = BuiltInvoice(proc.input.invoice_number, None, None)]
                  ELSE to_except(p, Raises("Invoice cannot be built"))
    /\ UNCHANGED <<irnCall, irnParse, hsnDb, taxCall, inv, sealedItems, stackCall, item,
                   builder, hsnRead, mutator, reader, sign, rc, tasks>>

\* 3. InvoiceValidator.validate_invoice(invoice)
ProcFinalValidation ==
    /\ proc.pc = "final_validation"
    /\ LET p == begin_step(proc, "final_validation")
           error == ValidationError("invoice", "validation error", "VALIDATION_ERROR")
       IN proc' = IF proc.input.revalidates THEN [p EXCEPT !.pc = "irn"]
                  ELSE to_return(p, failure(p, <<error.value>>))
    /\ UNCHANGED <<irnCall, irnParse, hsnDb, taxCall, inv, sealedItems, stackCall, item,
                   builder, hsnRead, mutator, reader, sign, rc, tasks>>

\* 4. irn = IRNGenerator.generate_irn(invoice); invoice.irn = irn
ProcGenerateIrn ==
    /\ proc.pc = "irn"
    /\ LET p == begin_step(proc, "irn")
           irn == firs_generate_irn(proc.invoice.invoice_number, NoDate, proc.env_sid,
                                    proc.gen, proc.now).irn
       IN proc' = IF irn_field_ok(irn)
                  THEN [p EXCEPT !.pc = "qr", !.irn = irn, !.invoice.irn = irn]
                  ELSE to_except([p EXCEPT !.irn = irn],
                                 Raises("String should match pattern '^[A-Z0-9\\-]+$'"))
    /\ UNCHANGED <<irnCall, irnParse, hsnDb, taxCall, inv, sealedItems, stackCall, item,
                   builder, hsnRead, mutator, reader, sign, rc, tasks>>

\* qr_code = FIRSQRCodeGenerator.generate_qr_code(irn); invoice.qr_code =
\* qr_code; return ProcessingResult(success=True, ...)
ProcGenerateQr ==
    /\ proc.pc = "qr"
    /\ LET p == begin_step(proc, "qr")
           qr == FIRSQRCodeGenerator_generate_qr_code(<<proc.irn>>, proc.configured)
           done == [p EXCEPT !.qr_code = qr.value, !.invoice.qr_code = qr.value]
       IN proc' = IF qr.ok
                  THEN to_return(done, ProcessingResult(TRUE, done.invoice, done.irn,
                                                        done.qr_code, <<>>))
                  ELSE to_except(p, qr)
    /\ UNCHANGED <<irnCall, irnParse, hsnDb, taxCall, inv, sealedItems, stackCall, item,
                   builder, hsnRead, mutator, reader, sign, rc, tasks>>

\* except Exception as error: return ProcessingResult(success=False,
\* errors=[ValidationError(field='general', message=str(error), ...)])
ProcExcept ==
    /\ proc.pc = "except"
    /\ LET error == ValidationError("general", proc.error.message, "PROCESSING_ERROR")
       IN proc' = IF error.ok THEN to_return(proc, failure(proc, <<error.value>>))
                  ELSE [proc EXCEPT !.pc = "raised", !.error = error]
    /\ UNCHANGED <<irnCall, irnParse, hsnDb, taxCall, inv, sealedItems, stackCall, item,
                   builder, hsnRead, mutator, reader, sign, rc, tasks>>

\* the caller has the result, or the exception
ProcFinish ==
    /\ proc.pc \in {"returned", "raised"}
    /\ proc' = NoProcess
    /\ UNCHANGED <<irnCall, irnParse, hsnDb, taxCall, inv, sealedItems, stackCall, item,
                   builder, hsnRead, mutator, reader, sign, rc, tasks>>

ProcessNext == \/ ProcCall
               \/ ProcValidateInput
               \/ ProcBuild
               \/ ProcFinalValidation
               \/ ProcGenerateIrn
               \/ ProcGenerateQr
               \/ ProcExcept
               \/ ProcFinish

SpecProcess == Init /\ [][ProcessNext]_vars

(***************************************************************************)
(* Properties of the IRN codec                                             *)
(***************************************************************************)
Parsed == irnParse.impl # "none"
HasHyphen(s) == \E i \in 1..Len(s) : s[i] = Hyphen
IsAsciiAlnum8(s) == Len(s) = ServiceIdLen /\ IsAlnum(s)

\* The grammar {InvoiceNumber}-{ServiceID}-{DateStamp} read off the string
\* by position: the text after the last hyphen, the text between the last
\* two hyphens, and the text before them.
LastHyphen(s) == IF HasHyphen(s)
                 THEN CHOOSE i \in 1..Len(s) : s[i] = Hyphen /\ \A j \in (i+1)..Len(s) : s[j] # Hyphen
                 ELSE 0
GrammarDate(s) == SubSeq(s, LastHyphen(s) + 1, Len(s))
GrammarService(s) == LET front == SubSeq(s, 1, LastHyphen(s) - 1)
                     IN SubSeq(front, LastHyphen(front) + 1, Len(front))
GrammarInvoice(s) == LET front == SubSeq(s, 1, LastHyphen(s) - 1)
                     IN SubSeq(front, 1, LastHyphen(front) - 1)
IsDateStamp(s) == /\ Len(s) = DateStampLen
                  /\ \A i \in 1..Len(s) : s[i] \in DigitChars
                  /\ ValidDate(ToInt(SubSeq(s, 1, 4)), ToInt(SubSeq(s, 5, 6)), ToInt(SubSeq(s, 7, 8)))
TwoHyphens(s) == LastHyphen(s) > 0 /\ LastHyphen(SubSeq(s, 1, LastHyphen(s) - 1)) > 0
\* the grammar with the service ID in upper case, as the specification gives it
WellFormedIrn(s) == /\ TwoHyphens(s)
                    /\ GrammarInvoice(s) # <<>>
                    /\ Len(GrammarService(s)) = ServiceIdLen
                    /\ \A i \in 1..ServiceIdLen : GrammarService(s)[i] \in UpperChars \cup DigitChars
                    /\ IsDateStamp(GrammarDate(s))

PlainNumber(n) == n # None /\ n # <<>> /\ n[1] # Hyphen /\ n[Len(n)] # Hyphen
\* every service ID handed to the builder is 8 alphanumeric characters
GoodSids(c) == \A x \in {c.s, c.env} : x = None \/ IsAsciiAlnum8(x)

BuildOps == {"generate_irn", "create_custom_irn", "client_generate_irn",
             "firs_generate_irn", "firs_create_custom_irn"}

\* C3: every IRN returned by an IRN-building operation is accepted by
\* validate, and parsing it yields the service ID and the date stamp that were
\* used to build it (stated here for plain invoice numbers and service IDs
\* that already are 8 alphanumeric characters).
C3_BuildersAgreeWithParse ==
    (/\ irnCall.op \in BuildOps /\ irnCall.res.ok /\ Parsed
     /\ PlainNumber(irnCall.n) /\ GoodSids(irnCall)) =>
        /\ irnParse.valid
        /\ irnParse.comp.ok
        /\ irnParse.comp.service_id = irnCall.res.sid
        /\ irnParse.comp.date_stamp = irnCall.res.ds

\* the service ID a builder starts from, before any coercion
SourceSid(c) == CASE c.op = "generate_irn" -> (IF ~Falsy(c.s) THEN c.s ELSE c.env)
                  [] c.op = "create_custom_irn" -> c.s
                  [] c.op = "client_generate_irn" -> (IF ~Falsy(c.env) THEN c.env ELSE c.s)
                  [] OTHER -> None
RECURSIVE Rjust(_, _)
Rjust(s, w) == IF Len(s) >= w THEN s ELSE Rjust(<<"0">> \o s, w)

\* C4: build coerces the service ID to exactly 8 characters for every input:
\* a longer one is truncated to its first 8, a shorter one is left-padded
\* with zeros, so the service-ID token of a returned IRN is always 8 long.
C4_ServiceIdCoercedTo8 ==
    (/\ irnCall.op \in {"generate_irn", "create_custom_irn", "client_generate_irn"}
     /\ irnCall.res.ok /\ PlainNumber(irnCall.n)
     /\ ~Falsy(SourceSid(irnCall)) /\ IsAlnum(SourceSid(irnCall))) =>
        /\ Len(irnCall.res.sid) = ServiceIdLen
        /\ Upper(irnCall.res.sid) = Upper(Rjust(Prefix(SourceSid(irnCall), ServiceIdLen), ServiceIdLen))

\* C5: validate and parse take the last token as the date stamp, the
\* second-to-last as the service ID and everything before them, rejoined with
\* hyphens, as the invoice number; a well-formed IRN whose invoice number
\* contains hyphens is accepted and its invoice number is recovered whole.
C5_LastTwoTokens ==
    Parsed =>
        /\ WellFormedIrn(irnCall.res.irn) => irnParse.valid
        /\ irnParse.valid =>
              /\ irnParse.comp.ok
              /\ irnParse.comp.date_stamp = GrammarDate(irnCall.res.irn)
              /\ irnParse.comp.service_id = GrammarService(irnCall.res.irn)
              /\ irnParse.comp.invoice_number = GrammarInvoice(irnCall.res.irn)
              /\ Fmt3(irnParse.comp.invoice_number, irnParse.comp.service_id,
                      irnParse.comp.date_stamp) = irnCall.res.irn

\* an IRN whose invoice number holds two hyphens was accepted and parsed
C5_Witness ==
    /\ irnParse.impl = "zutax" /\ irnCall.op = "raw" /\ irnParse.valid
    /\ irnParse.comp.invoice_number = <<"A", Hyphen, Hyphen>>

\* C6: validate returns true only for strings whose service-ID token is
\* exactly 8 upper-case alphanumeric characters and whose date-stamp token is
\* a calendar date written YYYYMMDD, after a non-empty invoice number.
C6_ValidateOnlyGrammar ==
    (/\ Parsed /\ irnCall.op = "raw" /\ irnParse.valid
     /\ PlainNumber(irnParse.comp.invoice_number)) => WellFormedIrn(irnCall.res.irn)

\* C7: parse fails exactly when validate is false, and a failing parse hands
\* back no component at all.
C7_ParseFailsIffInvalid ==
    Parsed =>
        /\ irnParse.comp.ok <=> irnParse.valid
        /\ ~irnParse.valid => irnParse.comp = ComponentsError
        /\ irnParse.valid => /\ irnParse.comp.invoice_number # None
                             /\ irnParse.comp.service_id # None
                             /\ irnParse.comp.date_stamp # None
                             /\ irnParse.comp.issue_date # NoDate

\* a parse of a string with three tokens and an impossible date has failed
C7_Witness ==
    /\ irnParse.impl = "zutax" /\ irnCall.op = "raw"
    /\ Len(Split(irnCall.res.irn)) >= 3
    /\ ~irnParse.valid /\ ~irnParse.comp.ok

\* C26: the date stamp of the IRN generated for an invoice is the issue
\* date of the invoice (its invoice_date) as YYYYMMDD.
C26_DateStampIsIssueDate ==
    (irnCall.op = "invoice_generate_irn" /\ irnCall.res.ok) =>
        irnCall.res.ds = strftime(irnCall.d)

\* for an object that has an attribute issue_date the date stamp is that
\* date, and the current date when the attribute is None
C26_IssueDateAttributeIsUsed ==
    (irnCall.op = "generate_irn" /\ irnCall.res.ok) =>
        irnCall.res.ds = strftime(IF irnCall.d # NoDate THEN irnCall.d ELSE irnCall.now)

(***************************************************************************)
(* Properties of the tax engine                                            *)
(***************************************************************************)
\* t is x >= 0 rounded to the cent, a tie going up: t is a number of cents
\* and t - 0.005 <= x < t + 0.005
IsRoundHalfUp(x, t) ==
    LET E == IF x.e >= CentPlaces THEN x.e ELSE CentPlaces
        p == Pow10(E - CentPlaces)
    IN /\ t # NoDec
       /\ DecimalPlaces(t) <= CentPlaces
       /\ 2 * Scaled(t, E) - p <= 2 * Scaled(x, E)
       /\ 2 * Scaled(x, E) < 2 * Scaled(t, E) + p

\* the call was calculate_line_tax with a custom rate, for no HSN code or one
\* that is not exempt
CustomRateCall ==
    /\ taxCall.op = "calculate_line_tax"
    /\ taxCall.custom_rate # NoDec
    /\ (Falsy(taxCall.hsn_code) \/ ~is_exempt(hsnDb, taxCall.hsn_code))

\* amount * rate / 100 of the call, unrounded
ExactTax == DDiv100(DMul(taxCall.amount, taxCall.custom_rate))

\* C9: for every amount >= 0 and custom rate in [0, 100], calculate_line_tax
\* returns the tax amount * rate / 100 rounded half up to two decimals, and
\* validate_tax_calculation of the amount, that tax and the rate is true.
C9_LineTaxRoundedHalfUp ==
    CustomRateCall =>
        /\ taxCall.res.rate = taxCall.custom_rate
        /\ taxCall.res.base_amount = taxCall.amount
        /\ IsRoundHalfUp(ExactTax, taxCall.res.tax_amount)
        /\ (taxCall.checked /\ taxCall.tax = taxCall.res.tax_amount) => taxCall.valid

\* a call whose exact tax ends in half a cent was rounded up and validated
C9_Witness ==
    /\ CustomRateCall
    /\ ExactTax.e = CentPlaces + 1
    /\ ExactTax.n % 10 = 5
    /\ taxCall.res.tax_amount = Dec((ExactTax.n \div 10) + 1, CentPlaces)
    /\ taxCall.checked
    /\ taxCall.tax = taxCall.res.tax_amount
    /\ taxCall.valid

RECURSIVE TaxesBefore(_, _)
\* the sum of the tax amounts of the details before the k-th
TaxesBefore(details, k) ==
    IF k <= 1 THEN Zero
    ELSE DAdd(TaxesBefore(details, k - 1), details[k - 1].tax_amount)

\* the call stacked two taxes of 10 percent on 1000
TwoTenPercentTaxes ==
    /\ stackCall.amount = Dec(1000, 0)
    /\ Len(stackCall.taxes) = 2
    /\ \A k \in 1..2 : stackCall.taxes[k].rate = Dec(10, 0)

\* C12: calculate_multiple_taxes computes every tax on the same base amount;
\* calculate_cascading_tax computes the k-th tax on the base amount plus the
\* k-1 tax amounts before it; each tax is base * rate / 100 rounded half up
\* to the cent and the total is their sum.  For 1000 and two taxes of 10
\* percent the additive total is 200 and the cascading total is 210.
C12_AdditiveAndCascading ==
    LET d == stackCall.breakdown.details
        cascading == stackCall.op = "calculate_cascading_tax"
    IN stackCall.op \in {"calculate_multiple_taxes", "calculate_cascading_tax"} =>
        /\ Len(d) = Len(stackCall.taxes)
        /\ \A k \in 1..Len(d) :
            /\ d[k].base_amount = IF cascading THEN DAdd(stackCall.amount, TaxesBefore(d, k))
                                  ELSE stackCall.amount
            /\ IsRoundHalfUp(DDiv100(DMul(d[k].base_amount, stackCall.taxes[k].rate)),
                             d[k].tax_amount)
        /\ stackCall.breakdown.total = TaxesBefore(d, Len(d) + 1)
        /\ TwoTenPercentTaxes =>
               stackCall.breakdown.total = IF cascading THEN Dec(210, 0) ELSE Dec(200, 0)

\* the cascading call of the example: the second tax is computed on 1100
C12_Witness ==
    /\ stackCall.op = "calculate_cascading_tax"
    /\ TwoTenPercentTaxes
    /\ stackCall.breakdown.details[2].base_amount = Dec(1100, 0)
    /\ stackCall.breakdown.details[2].tax_amount = Dec(110, 0)
    /\ stackCall.breakdown.total = Dec(210, 0)

\* the additive call of the example
C12_AdditiveWitness ==
    /\ stackCall.op = "calculate_multiple_taxes"
    /\ TwoTenPercentTaxes
    /\ stackCall.breakdown.total = Dec(200, 0)

HalfCent == Dec(5, CentPlaces + 1)

\* b is total / (1 + rate/100) rounded to the cent, a tie going up:
\* (b - 0.005) * (100 + rate) <= 100 * total < (b + 0.005) * (100 + rate)
IsReverseBase(total, rate, b) ==
    /\ b # NoDec
    /\ DecimalPlaces(b) <= CentPlaces
    /\ DLe(DMul(DSub(b, HalfCent), DAdd(Hundred, rate)), DMul(Hundred, total))
    /\ ~DLe(DMul(DAdd(b, HalfCent), DAdd(Hundred, rate)), DMul(Hundred, total))

\* C13: calculate_reverse_tax(total, rate) returns base_amount = total /
\* (1 + rate/100) rounded half up to two decimals and tax_amount = total -
\* base_amount, so that base_amount + tax_amount = total; for 107.50 and 7.5
\* it returns 100.00 and 7.50.
C13_ReverseTax ==
    stackCall.op = "calculate_reverse_tax" =>
        /\ IsReverseBase(stackCall.amount, stackCall.rate, stackCall.reverse.base_amount)
        /\ stackCall.reverse.tax_amount = DSub(stackCall.amount, stackCall.reverse.base_amount)
        /\ DAdd(stackCall.reverse.base_amount, stackCall.reverse.tax_amount) = stackCall.amount
        /\ (stackCall.amount = Dec(10750, CentPlaces) /\ stackCall.rate = VAT_RATE) =>
               /\ stackCall.reverse.base_amount = Dec(100, 0)
               /\ stackCall.reverse.tax_amount = Dec(750, CentPlaces)

\* the call of the example
C13_Witness ==
    /\ stackCall.op = "calculate_reverse_tax"
    /\ stackCall.amount = Dec(1075, 1)
    /\ stackCall.rate = VAT_RATE
    /\ stackCall.reverse = ReverseTax(Dec(100, 0), Dec(75, 1))

\* a call whose quotient ends in half a cent, rounded up: 0.01 at 100 percent
C13_TieWitness ==
    /\ stackCall.op = "calculate_reverse_tax"
    /\ stackCall.amount = Cent
    /\ stackCall.rate = Hundred
    /\ stackCall.reverse = ReverseTax(Cent, Zero)

(***************************************************************************)
(* Properties of the invoice                                               *)
(***************************************************************************)
\* C1: every total read from an invoice, the totals of its tax breakdown
\* included, is the sum over the invoice's current line items, whatever
\* constructions, assignments and line-item edits came before.
C1_TotalsAreLineItemSums ==
    inv # NoInvoice =>
        /\ Invoice_subtotal(inv) = SumBase(inv.line_items)
        /\ Invoice_total_discount(inv) = SumDiscount(inv.line_items)
        /\ Invoice_total_charges(inv) = SumCharge(inv.line_items)
        /\ Invoice_total_tax(inv) = SumTax(inv.line_items)
        /\ Invoice_total_amount(inv) = SumLineTotal(inv.line_items)
        /\ inv.tax_breakdown.present =>
            /\ inv.tax_breakdown.subtotal = SumBase(inv.line_items)
            /\ inv.tax_breakdown.total_discount = SumDiscount(inv.line_items)
            /\ inv.tax_breakdown.total_charges = SumCharge(inv.line_items)
            /\ TaxBreakdown_total_tax(inv.tax_breakdown) = SumTax(inv.line_items)
            /\ TaxBreakdown_total_amount(inv.tax_breakdown) = SumLineTotal(inv.line_items)

\* C8: an invoice that carries an irn, a signature or a qr_code has the line
\* items it had when they were produced: no line-item edit survives on a
\* sealed invoice together with the artifacts made before it.
C8_EditInvalidatesSeal ==
    (inv.irn # NoArtifact \/ inv.qr_code # NoArtifact \/ inv.signature # NoArtifact)
        => inv.line_items = sealedItems

\* the tax the tax engine computes for the taxable amount and rate of a line item
EngineTax(it) == calculate_line_tax(hsnDb, taxable_amount(it), None, it.tax_rate).tax_amount

\* C10: the tax_amount of every non-exempt line item is the tax engine's tax
\* for its taxable amount and rate (rounded half up to two decimals), and the
\* invoice's total_tax is the sum of those.
C10_LineTaxIsEngineTax ==
    (inv.impl = "firs" /\ \A i \in 1..Len(inv.line_items) : taxable_amount(inv.line_items[i]).n >= 0) =>
        /\ \A i \in 1..Len(inv.line_items) :
             ~inv.line_items[i].tax_exempt =>
                 tax_amount(inv.line_items[i]) = EngineTax(inv.line_items[i])
        /\ Invoice_total_tax(inv) =
               DSum([i \in 1..Len(inv.line_items) |->
                        IF inv.line_items[i].tax_exempt THEN Zero
                        ELSE EngineTax(inv.line_items[i])])




(***************************************************************************)
(* Properties of line items                                                *)
(***************************************************************************)
\* C11: a line item whose HSN code resolves to an exempt entry of the HSN
\* table has tax_amount 0 and a non-empty exemption reason, whatever
\* tax_rate was supplied for it.
C11_ExemptHsnMeansNoTax ==
    (item # NoLineItem /\ is_exempt(hsnDb, item.hsn_code))
        => (tax_amount(item) = Zero /\ ~NoText(item.tax_exempt_reason))

\* the builder was given an exempt code and then a rate, and built an item
\* that carries no tax
C11_BuilderWitness ==
    /\ item # NoLineItem
    /\ item.hsn_code = Medicines
    /\ item.tax_rate = Dec(5, 0)
    /\ item.tax_exempt_reason = HsnExemptReason
    /\ tax_amount(item) = Zero

\* calculate_line_tax on an exempt code returns no tax and the reason of
\* the entry, whatever custom_rate was passed
C11_LineTaxHonoursExemption ==
    (taxCall.op = "calculate_line_tax" /\ ~Falsy(taxCall.hsn_code)
     /\ is_exempt(hsnDb, taxCall.hsn_code))
        => (taxCall.res.tax_amount = Zero /\ ~NoText(taxCall.res.exemption_reason))

\* the item of test_computed_fields: 10 units at 100.00, rate 7.5,
\* discount_percent 10
TestItem ==
    LineItem(Computers, Dec(10, 0), Dec(100, 0), NoDiscount, <<>>, VAT_RATE, FALSE, NoReason, Dec(10, 0), NoReason)

\* C14: for every line item that exists, base_amount is quantity times
\* unit_price, taxable_amount is base_amount minus discount_amount plus
\* charge_amount, tax_amount is 0 when tax_exempt and taxable_amount times
\* tax_rate / 100 otherwise, line_total is taxable_amount plus tax_amount;
\* 10 units at 100.00 with rate 7.5 and 10% discount give base 1000.00,
\* discount 100.00, taxable 900.00, tax 67.50 and line total 967.50.
C14_LineItemAmounts ==
    item # NoLineItem =>
        /\ base_amount(item) = DMul(item.quantity, item.unit_price)
        /\ taxable_amount(item)
             = DAdd(DSub(base_amount(item), discount_amount(item)), charge_amount(item))
        /\ tax_amount(item) = IF item.tax_exempt THEN Zero
                              ELSE DDiv100(DMul(taxable_amount(item), item.tax_rate))
        /\ line_total(item) = DAdd(taxable_amount(item), tax_amount(item))
        /\ item = TestItem =>
               /\ base_amount(item) = Dec(1000, 0)
               /\ discount_amount(item) = Dec(100, 0)
               /\ taxable_amount(item) = Dec(900, 0)
               /\ tax_amount(item) = Dec(6750, 2)
               /\ line_total(item) = Dec(96750, 2)

\* the item of the test exists, and so does an item with a charge
C14_Witness == item = TestItem /\ line_total(item) = Dec(9675, 1)

C14_ChargeWitness ==
    item # NoLineItem /\ charge_amount(item) = Dec(5, 0) /\ discount_amount(item) = Dec(1, 0)

\* C15: every line item that exists and is tax_exempt has a
\* tax_exempt_reason and carries no tax.
C15_ExemptHasReason ==
    (item # NoLineItem /\ item.tax_exempt)
        => (~NoText(item.tax_exempt_reason) /\ tax_amount(item) = Zero)

\* a line item cannot be constructed tax_exempt without a reason, directly
\* or through the builder: the breach of C15 needs an assignment
C15_ConstructionHasReason ==
    [][(item = NoLineItem /\ item' # NoLineItem /\ item'.tax_exempt)
          => ~NoText(item'.tax_exempt_reason)]_vars

\* the discount amount and the discount percent that an item was given
GivenDiscountAmount(it) == it.discount.present /\ Truthy(it.discount.amount)
GivenDiscountPercent(it) ==
    Truthy(it.discount_percent) \/ (it.discount.present /\ Truthy(it.discount.percent))

\* C16: no line item that exists was given both a discount amount and a
\* discount percent.
C16_OneDiscountForm ==
    item # NoLineItem => ~(GivenDiscountAmount(item) /\ GivenDiscountPercent(item))

\* C16 for the Discount object alone
C16_DiscountOneForm ==
    item # NoLineItem => ~(GivenDiscountAmount(item) /\ Truthy(item.discount.percent))

(***************************************************************************)
(* Properties of the HSN registry                                          *)
(***************************************************************************)
\* C17: every entry of the HSN registry that is exempt has tax rate 0.
C17_ExemptEntriesHaveZeroRate ==
    \A c \in DOMAIN hsnDb : hsnDb[c].is_exempt => hsnDb[c].tax_rate = Zero

\* C19: a read operation leaves the set of entries of the registry as it
\* found it.
C19_ReadsChangeNothing ==
    hsnRead.op # "idle" => DOMAIN hsnDb = DOMAIN hsnRead.before

\* a read of a registry that holds entries leaves it as it found it
C19_ReadsOfLoadedRegistry ==
    (hsnRead.op # "idle" /\ DOMAIN hsnRead.before # {}) => hsnDb = hsnRead.before

\* C20: get_tax_rate returns the rate of the entry with exactly that code
\* if the registry has one, else the rate of the entry for the first 4
\* digits of the code if it has one, else 7.5; it returns a rate for every
\* code.
C20_TaxRateResolution ==
    hsnRead.op = "get_tax_rate" =>
        LET code == hsnRead.code
        IN /\ hsnRead.rate # NoDec
           /\ hsnRead.rate =
                IF code \in DOMAIN hsnDb THEN hsnDb[code].tax_rate
                ELSE IF Len(code) >= ChapterLen /\ Prefix(code, ChapterLen) \in DOMAIN hsnDb
                     THEN hsnDb[Prefix(code, ChapterLen)].tax_rate
                     ELSE Dec(75, 1)

\* a code known only by its chapter got the chapter's rate, not the default
C20_Witness ==
    /\ hsnRead.op = "get_tax_rate"
    /\ hsnRead.code = Tablets
    /\ Tablets \notin DOMAIN hsnDb
    /\ Medicines \in DOMAIN hsnDb
    /\ hsnRead.rate = Zero

\* a code known only by its chapter got the chapter's rate while a sibling
\* code had its own entry at another rate
C20_SiblingWitness ==
    /\ hsnRead.op = "get_tax_rate"
    /\ hsnRead.code = Servers
    /\ Laptops \in DOMAIN hsnDb
    /\ hsnDb[Laptops].tax_rate = Dec(10, 0)
    /\ hsnRead.rate = hsnDb[Computers].tax_rate

\* a code with its own entry under a chapter got its own rate
C20_ExactWitness ==
    /\ hsnRead.op = "get_tax_rate"
    /\ hsnRead.code = Laptops
    /\ hsnRead.rate = Dec(10, 0)

\* an unknown code and a short code got the default rate
C20_DefaultWitness ==
    /\ hsnRead.op = "get_tax_rate"
    /\ hsnRead.code = TooShort
    /\ hsnRead.rate = VAT_RATE

\* C21: every code the registry holds passed the HSN format check: 4 to 8
\* decimal digits and an even length.
C21_RegistryCodesPassFormatCheck ==
    \A c \in DOMAIN hsnDb : validators_validate_hsn_code(c) /\ Len(c) % 2 = 0

\* the format check that guards the registry agrees with the one of the
\* schema validators on every code of even length
C21_ChecksAgreeOnEvenLength ==
    \A e \in RegistryEntries \cup {[code |-> c] : c \in LookupCodes} :
        Len(e.code) % 2 = 0 => (validate_hsn_code(e.code) <=> validators_validate_hsn_code(e.code))

\* the registry before the mutation of the mutating thread, and after it
\* had it run alone
RegistryBefore == IF mutator.pc = "idle" THEN hsnDb ELSE mutator.pre
RegistryAfter ==
    IF mutator.op = "add_custom_hsn_code"
        THEN add_custom_hsn_code(mutator.pre, mutator.code, mutator.hsn)
    ELSE IF mutator.op = "remove_hsn_code" THEN remove_hsn_code(mutator.pre, mutator.code)
    ELSE IF mutator.op = "clear_custom_hsn_codes" THEN clear_custom_hsn_codes(mutator.pre)
    ELSE hsnDb

\* C18: a lookup that runs while another thread mutates the registry
\* returns what it would return on the registry before the mutation or on
\* the registry after it.
C18_LookupSeesBeforeOrAfter ==
    reader.pc = "done" =>
        reader.hsn \in {get_hsn_code(RegistryBefore, reader.code),
                        get_hsn_code(RegistryAfter, reader.code)}

\* C18 for add and remove alone: one dict operation each, their lookups
\* see the registry before or after
C18_AddRemoveAreAtomic ==
    (reader.pc = "done" /\ mutator.op # "clear_custom_hsn_codes") =>
        reader.hsn \in {get_hsn_code(RegistryBefore, reader.code),
                        get_hsn_code(RegistryAfter, reader.code)}


(***************************************************************************)
(* Properties of the signing operations                                    *)
(***************************************************************************)
\* the stage a signing operation is in, by the place it has reached
SignStage(pc) ==
    CASE pc = "unsigned" -> 1
      [] pc \in {"payload_built", "configured", "key_imported"} -> 2
      [] pc = "encrypted" -> 3
      [] pc = "done" -> 4
      [] OTHER -> 0

\* C22: a signing operation moves only forward through Unsigned,
\* PayloadBuilt, Encrypted, Done: no step returns to an earlier stage, a
\* failure ends the invocation (nothing follows it but the caller's next
\* call), encryption is attempted at most once, and Done is reached only
\* with the payload built and then encrypted.
C22_SigningMovesForward ==
    [][/\ sign.pc \notin {"idle", "done", "failed"} =>
            (sign'.pc = "failed" \/ SignStage(sign'.pc) >= SignStage(sign.pc))
       /\ sign.pc = "failed" => sign'.pc \in {"failed", "idle"}
       /\ sign.pc = "done" => sign'.pc \in {"done", "idle"}
       /\ sign'.encrypts <= 1
       /\ sign'.pc = "done" => (sign'.trace = SignStages /\ sign'.encrypts = 1)
       /\ sign'.pc \notin {"idle", "failed"} =>
            sign'.trace = SubSeq(SignStages, 1, SignStage(sign'.pc))]_vars

\* an operation failed in cipher.encrypt, after its payload was built
C22_Witness ==
    /\ sign.pc = "failed"
    /\ sign.encrypts = 1
    /\ sign.trace = <<"Unsigned", "PayloadBuilt">>

\* an operation reached Done
C22_DoneWitness == sign.pc = "done" /\ sign.trace = SignStages

\* C23: encryption is never performed with partial key material: whenever
\* cipher.encrypt has been called, the public key and the certificate of
\* the operation are both present.
C23_NoEncryptionWithPartialKeys ==
    sign.encrypts > 0 => (TextTruthy(sign.key) /\ TextTruthy(sign.payload.certificate))

\* sign_irn on a signer that is not configured fails before the key is
\* imported and before cipher.encrypt is called
C23_SignIrnIsGated ==
    (sign.op = "sign_irn" /\ ~is_configured(sign)) =>
        (sign.encrypts = 0 /\ sign.pc \in {"unsigned", "payload_built", "failed"})

\* C24: the timestamp of the result of sign_irn is the timestamp that was
\* passed, whenever one was passed, and the current time otherwise; its
\* irn_with_timestamp is irn + "." + that timestamp, and is the irn of the
\* encrypted payload.
C24_SuppliedTimestampIsUsed ==
    (sign.op = "sign_irn" /\ sign.pc = "done") =>
        LET ts == IF sign.timestamp.given THEN sign.timestamp.value ELSE sign.now
        IN /\ sign.result.timestamp = ts
           /\ sign.result.irn_with_timestamp = sign.irn \o <<".">> \o IntStr(ts)
           /\ sign.result.encrypted_data.payload.irn = sign.result.irn_with_timestamp

\* with a timestamp other than 0, or none, the result is as C24 says
C24_NonZeroTimestampIsUsed ==
    (sign.op = "sign_irn" /\ sign.pc = "done" /\ sign.timestamp # Timestamp(0)) =>
        LET ts == IF sign.timestamp.given THEN sign.timestamp.value ELSE sign.now
        IN /\ sign.result.timestamp = ts
           /\ sign.result.irn_with_timestamp = sign.irn \o <<".">> \o IntStr(ts)
           /\ sign.result.encrypted_data.payload.irn = sign.result.irn_with_timestamp

\* C25: a signer loaded from a public key and a certificate holds that key,
\* whether the key was given as raw PEM or base64-wrapped.
C25_RawAndWrappedKeyLoadTheSame ==
    \A body \in RsaKeyBodies :
        (sign.env_key \in {Pem(body), Base64Pem(body)} /\ TextTruthy(sign.env_certificate)) =>
            sign.firs_public_key_pem = Pem(body)

\* encrypt_for_qr imports the same key for the raw and the wrapped form
C25_EncryptForQrTakesBothForms ==
    \A body \in RsaKeyBodies :
        (/\ sign.op = "encrypt_for_qr"
         /\ sign.pc \in {"configured", "key_imported", "encrypted", "done"}
         /\ sign.public_key_input \in {Pem(body), Base64Pem(body)}) => sign.key = Pem(body)

(***************************************************************************)
(* Properties of the resource cache                                        *)
(***************************************************************************)
\* C27: however the constructions ResourceCache() of the threads interleave,
\* one instance is created and the body of __init__ (entry store and
\* statistics) runs once: no construction meets an instance without
\* _initialized, and every key stored and not deleted since is still in the
\* entry store.
C27_OneInstanceInitialisedOnce ==
    /\ rc.instances <= 1
    /\ rc.inits <= 1
    /\ rc.stored \subseteq DOMAIN rc._cache
    /\ \A t \in Threads : tasks[t].pc # "error"

\* a thread has constructed and stored an entry, and the other thread is in
\* the middle of a construction, before its test of _initialized
C27_Witness ==
    /\ rc.stored # {}
    /\ tasks[1].pc = "ready"
    /\ tasks[ImportThread].pc = "init_check"
    /\ rc.inits = 1

\* C28: for concurrent get_or_set calls on a key missing from the cache the
\* factory runs at most once, and every caller receives the value left in
\* the cache.
C28_FactoryRunsOnceForMissingKey ==
    /\ rc.factory_calls <= 1
    /\ \A t \in Threads :
          (tasks[t].pc = "gos_done" /\ tasks[t].key \in DOMAIN rc._cache)
              => tasks[t].ret = rc._cache[tasks[t].key].data

\* C29: a read (get, has, get_many) returns no value for a key whose TTL has
\* elapsed since it was last stored with set or set_many.
C29_LapsedEntryIsNotRetrieved == rc.last.retrieved \cap rc.last.lapsed = {}

=============================================================================
